---------------------------- MODULE Spec2Model ----------------------------
(***************************************************************************)
(* Queue-based background sync of the 1Sat wallet toolbox.                 *)
(*                                                                         *)
(* The model covers the persistent sync queue in its two backends          *)
(* (SqliteSyncQueue, IndexedDbSyncQueue) and the orchestrator of           *)
(* OneSatWallet: sync(), handleSyncOutput, processQueueLoop, processTxid   *)
(* and stopSync, together with a process crash.                            *)
(*                                                                         *)
(* Scheduling.  JavaScript runs one task at a time.  The SQLite backend    *)
(* has no await inside its methods, so a queue call and the continuation   *)
(* of its caller run inside the task that issued the call.  The IndexedDB  *)
(* backend runs every method as one or more IndexedDB transactions on the  *)
(* queue store; transactions on one store commit in creation order and     *)
(* the caller continues when the transaction has completed.  Both are      *)
(* modelled with one FIFO of issued queue-store transactions (txq): on     *)
(* the SQLite backend nothing but the head of the FIFO (or a crash) may    *)
(* run while it is non-empty.                                              *)
(***************************************************************************)
EXTENDS Integers, Sequences, FiniteSets, TLC

(***************************************************************************)
(* Bounds of the model.                                                    *)
(***************************************************************************)
MaxDeliver == 2
MaxSessions == 2
MaxCrash == 1
MaxCalls == 4
MaxIngests == 3
MaxStarts == 2
BatchSize == 2

(***************************************************************************)
(* Program constants.                                                      *)
(***************************************************************************)
REORG_SAFE_DEPTH == 6

\* Scores are block_height.tx_index; they are kept as fixed point numbers
\* with one decimal digit, so 25 stands for 2.5 and Math.floor is \div 10.
\* Math.floor(output.score)
Floor(score) == score \div 10

(***************************************************************************)
(* The events the indexer can stream: the two outputs of transaction A    *)
(* (block 1), output A_0 reported once unspent and once spent by B, the    *)
(* spend of A_0 (block 2) and an output of transaction B in block 4.       *)
(***************************************************************************)
NoSpend == "-"
NoError == "-"

Outpoint(txid, vout) == <<txid, vout>>

Ev(o, s, sp) == [outpoint |-> o, score |-> s, spendTxid |-> sp]

Events ==
  { Ev(Outpoint("A", 0), 10, NoSpend), Ev(Outpoint("A", 0), 10, "B"),
    Ev(Outpoint("A", 1), 10, NoSpend), Ev(Outpoint("A", 0), 25, "B"),
    Ev(Outpoint("B", 0), 40, NoSpend) }

Heights == {8, 10}

\* id = `${outpoint}:${score}`
IdOf(o, s) == <<o, s>>

Ids == { IdOf(e.outpoint, e.score) : e \in Events }

\* outpoint.substring(0, 64)
TxidOf(o) == o[1]

Txids == { TxidOf(e.outpoint) : e \in Events }

\* Number.parseInt(outpoint.substring(65), 10)
VoutOf(o) == o[2]

\* Order of the id strings, the primary key order of the IndexedDB store.
TxRank(t) == IF t = "A" THEN 1 ELSE 2

IdKey(id) == TxRank(TxidOf(id[1])) * 10000 + VoutOf(id[1]) * 1000 + id[2]

NoRow == [status |-> "absent"]

Statuses == {"pending", "processing", "done", "failed"}

MaxOf(S) == CHOOSE x \in S : \A y \in S : y <= x


(***************************************************************************)
(* The stored rows.  A queue is a function from ids to a row or NoRow.     *)
(***************************************************************************)
Row(o, s, sp, st, att, err, cAt, uAt) ==
  [outpoint |-> o, score |-> s, spendTxid |-> sp, status |-> st,
   attempts |-> att, lastError |-> err, createdAt |-> cAt, updatedAt |-> uAt]

RowsOf(q) == { id \in Ids : q[id] # NoRow }

WithStatus(q, st) == { id \in Ids : q[id].status = st }

\* SQL: outpoint LIKE '<txid>%'
SqliteLike(o, txid) == TxidOf(o) = txid

\* item.outpoint.startsWith(txid)
IdbStartsWith(o, txid) == TxidOf(o) = txid

(***************************************************************************)
(* enqueue, one item.  SQLite: SELECT status, then INSERT OR REPLACE with   *)
(* COALESCE of the old attempts and created_at; last_error is not in the   *)
(* column list and becomes NULL.                                           *)
(***************************************************************************)
SqliteEnqueue_NoSkip(q, e, t) ==
  LET id == IdOf(e.outpoint, e.score)
      ex == q[id]
  IN  [q EXCEPT ![id] =
         Row(e.outpoint, e.score, e.spendTxid, "pending",
             IF ex = NoRow THEN 0 ELSE ex.attempts, NoError,
             IF ex = NoRow THEN t ELSE ex.createdAt, t)]

SqliteEnqueue_ResetAttempts(q, e, t) ==
  LET id == IdOf(e.outpoint, e.score)
      ex == q[id]
  IN  IF ex.status = "done"
        THEN q
        ELSE [q EXCEPT ![id] =
                Row(e.outpoint, e.score, e.spendTxid, "pending", 0, NoError, t, t)]

SqliteEnqueue(q, e, t) ==
  LET id == IdOf(e.outpoint, e.score)
      ex == q[id]
  IN  IF ex.status = "done"
        THEN q
        ELSE [q EXCEPT ![id] =
                Row(e.outpoint, e.score, e.spendTxid, "pending",
                    IF ex = NoRow THEN 0 ELSE ex.attempts, NoError,
                    IF ex = NoRow THEN t ELSE ex.createdAt, t)]

\* IndexedDB: store.get(id), then store.put of a fresh object that takes
\* attempts and createdAt from the existing one, all in one transaction.
IdbEnqueue_NoSkip(q, e, t) ==
  LET id == IdOf(e.outpoint, e.score)
      existing == q[id]
  IN  [q EXCEPT ![id] =
         Row(e.outpoint, e.score, e.spendTxid, "pending",
             IF existing = NoRow THEN 0 ELSE existing.attempts, NoError,
             IF existing = NoRow THEN t ELSE existing.createdAt, t)]

IdbEnqueue(q, e, t) ==
  LET id == IdOf(e.outpoint, e.score)
      existing == q[id]
  IN  IF existing.status = "done"
        THEN q
        ELSE [q EXCEPT ![id] =
                Row(e.outpoint, e.score, e.spendTxid, "pending",
                    IF existing = NoRow THEN 0 ELSE existing.attempts, NoError,
                    IF existing = NoRow THEN t ELSE existing.createdAt, t)]

(***************************************************************************)
(* claim.  Seeds: SQLite takes any `count` pending rows (LIMIT without     *)
(* ORDER BY); IndexedDB walks the status index, which yields the pending   *)
(* rows in primary key order.                                              *)
(***************************************************************************)
SqliteSeedChoices(q, count) ==
  LET pend == WithStatus(q, "pending")
      n == IF Cardinality(pend) < count THEN Cardinality(pend) ELSE count
  IN  { S \in SUBSET pend : Cardinality(S) = n }

IdbSeeds(q, count) ==
  LET pend == WithStatus(q, "pending")
  IN  { id \in pend :
          Cardinality({ j \in pend : IdKey(j) < IdKey(id) }) < count }

SeedTxids(q, seeds) == { TxidOf(q[id].outpoint) : id \in seeds }

\* SELECT * FROM queue WHERE outpoint LIKE ? AND status = 'pending'
SqlitePendingByTxid_AnyStatus(q, txid) ==
  { id \in RowsOf(q) : SqliteLike(q[id].outpoint, txid) }

SqlitePendingByTxid(q, txid) ==
  { id \in Ids : q[id].status = "pending" /\ SqliteLike(q[id].outpoint, txid) }

\* getPendingByTxid: cursor over the outpoint index, filtered
IdbPendingByTxid(q, txid) ==
  { id \in Ids : q[id].status = "pending" /\ IdbStartsWith(q[id].outpoint, txid) }

\* rowToItem(row, "processing", now)
RowToItem(row, t) ==
  [row EXCEPT !.status = "processing", !.attempts = row.attempts + 1,
              !.updatedAt = t]

\* UPDATE queue SET status = 'processing', attempts = attempts + 1,
\* updated_at = ? WHERE id IN (...)
SqliteMarkProcessing_NoIncrement(q, ids, t) ==
  [id \in Ids |->
     IF id \in ids /\ q[id] # NoRow
       THEN [q[id] EXCEPT !.status = "processing", !.updatedAt = t]
       ELSE q[id]]

SqliteMarkProcessing(q, ids, t) ==
  [id \in Ids |->
     IF id \in ids /\ q[id] # NoRow
       THEN [q[id] EXCEPT !.status = "processing",
                          !.attempts = q[id].attempts + 1, !.updatedAt = t]
       ELSE q[id]]

\* markProcessing: the gathered objects are mutated and written back whole
IdbMarkProcessing(q, items, t) ==
  [id \in Ids |->
     IF id \in DOMAIN items
       THEN [items[id] EXCEPT !.status = "processing",
                              !.attempts = items[id].attempts + 1,
                              !.updatedAt = t]
       ELSE q[id]]

\* The items a SQLite claim returns for the given seeds, keyed by id.
SqliteClaimItems(q, seeds, t) ==
  LET ids == UNION { SqlitePendingByTxid(q, txid) : txid \in SeedTxids(q, seeds) }
  IN  [id \in ids |-> RowToItem(q[id], t)]

(***************************************************************************)
(* completeMany, fail, resetProcessing, getStats.                          *)
(***************************************************************************)
\* UPDATE queue SET status = 'done', updated_at = ? WHERE id IN (...)
CompleteMany_KeepStatus(q, ids, t) ==
  [id \in Ids |->
     IF id \in ids /\ q[id] # NoRow
       THEN [q[id] EXCEPT !.updatedAt = t]
       ELSE q[id]]

CompleteMany_BumpAttempts(q, ids, t) ==
  [id \in Ids |->
     IF id \in ids /\ q[id] # NoRow
       THEN [q[id] EXCEPT !.status = "done", !.attempts = q[id].attempts + 1,
                          !.updatedAt = t]
       ELSE q[id]]

CompleteMany(q, ids, t) ==
  [id \in Ids |->
     IF id \in ids /\ q[id] # NoRow
       THEN [q[id] EXCEPT !.status = "done", !.updatedAt = t]
       ELSE q[id]]

\* UPDATE queue SET status = 'failed', last_error = ?, updated_at = ? WHERE id = ?
Fail(q, id, err, t) ==
  IF q[id] = NoRow
    THEN q
    ELSE [q EXCEPT ![id] = [q[id] EXCEPT !.status = "failed",
                                         !.lastError = err, !.updatedAt = t]]

\* result.changes / count++: the number resetProcessing returns
ResetProcessingCount(q) == Cardinality(WithStatus(q, "processing"))

\* UPDATE queue SET status = 'pending', updated_at = ? WHERE status = 'processing'
ResetProcessing_FirstOnly(q, t) ==
  [id \in Ids |->
     IF /\ q[id].status = "processing"
        /\ \A j \in WithStatus(q, "processing") : IdKey(id) <= IdKey(j)
       THEN [q[id] EXCEPT !.status = "pending", !.updatedAt = t]
       ELSE q[id]]

ResetProcessing(q, t) ==
  [id \in Ids |->
     IF q[id].status = "processing"
       THEN [q[id] EXCEPT !.status = "pending", !.updatedAt = t]
       ELSE q[id]]

\* per-status counts, distinct by txid
GetStats(q) ==
  [st \in Statuses |->
     Cardinality({ TxidOf(q[id].outpoint) : id \in WithStatus(q, st) })]

\* The groups of a claim result: txid -> ids of its items
GroupIds(items, txid) == { id \in DOMAIN items : TxidOf(items[id].outpoint) = txid }

ItemTxids(items) == { TxidOf(items[id].outpoint) : id \in DOMAIN items }


(***************************************************************************)
(* State.                                                                  *)
(***************************************************************************)
VARIABLES
  backend,            \* "sqlite" or "idb": the SyncQueueStorage given to the wallet
  queue,              \* the queue table / object store
  syncState,          \* the syncState row: lastQueuedScore, lastSyncedAt
  now,                \* Date.now(), advanced by every delivery
  txq,                \* issued queue-store transactions, in creation order
  setq,               \* setState writes of handleSyncOutput, in creation order
  pc,                 \* where the sync() call stands
  syncRunning,        \* this.syncRunning
  syncStopRequested,  \* this.syncStopRequested
  activeQueueSync,    \* this.activeQueueSync: the session whose stream it closes
  streamDone,         \* the streamDone local of the running sync() call
  fromScore,          \* the fromScore local
  currentHeight,      \* the last chain tip snapshot
  sess,               \* number of sync() calls that passed the guards
  streams,            \* the open SSE subscriptions
  claimTodo,          \* claim(): txids still to gather (IndexedDB)
  claimItems,         \* claim(): the gathered items, by id
  claimNow,           \* claim(): its `now`
  batch,              \* the txid groups of the running Promise.all
  completeEmits,      \* sync:complete events emitted by the running sync() call
  crashes,            \* process crashes so far
  lastEmit,           \* the event emitted by the last step
  lastOp,             \* the queue operation that returned in the last step
  claimPre,           \* the queue when the running claim() was called
  claimEnqs,          \* the enqueues committed since the running claim() was called
  prevScore,          \* lastQueuedScore before the last step
  claimed,            \* ids a claim returned, no complete or fail on them since
  recovered,          \* a resetProcessing call has returned since the process started
  transactions,       \* wallet storage: the transaction rows, by transactionId
  outputs,            \* wallet storage: the output rows, by outputId
  ingests,            \* the ingestTransaction calls in flight
  ingestCalls,        \* ingestTransaction calls made so far
  ingested,           \* txids of the ingestTransaction calls that returned
  lastIngest,         \* the ingestTransaction call that returned in the last step
  spends,             \* the storage work of the processTxid calls in flight
  lastProcess,        \* the processTxid call whose storage work ended in the last step
  listeners,          \* this.listeners: the callbacks of an event, in insertion order
  emitted,            \* the last emit() call: its callbacks, the ones it invoked
  syncQueue,          \* this.syncQueue is set (args.syncQueue was given)
  owners,             \* this.owners
  sseStreamActive,    \* this.sseStreamActive
  sseUnsubscribe,     \* this.sseUnsubscribe: the subscription it closes
  thisStreamDone,     \* this.streamDone
  sseStreams,         \* the open subscriptions of startStream()
  processorActive,    \* this.processorActive
  processorStopRequested, \* this.processorStopRequested
  spc,                \* where the startStream() call stands
  sfrom,              \* the fromScore local of startStream()
  ppc,                \* where the startProcessor() call stands
  pbatch,             \* the txid groups of its running Promise.all
  starts,             \* startStream() and startProcessor() calls that passed the guards
  lastCall,           \* the entry point called in the last step and how the call ended
  ctx                 \* the ParseContext of the transaction parseTransaction was given

qvars == <<queue, syncState, now, txq, setq>>
wvars == <<pc, syncRunning, syncStopRequested, activeQueueSync, streamDone,
           fromScore, currentHeight, sess, streams>>
cvars == <<claimTodo, claimItems, claimNow, batch>>
gvars == <<completeEmits, crashes, lastEmit, lastOp, claimPre, claimEnqs, prevScore,
           claimed, recovered>>
svars == <<transactions, outputs, ingests, ingestCalls, ingested, lastIngest,
           spends, lastProcess>>
evars == <<listeners, emitted>>
ivars == <<ctx>>
pvars == <<syncQueue, owners, sseStreamActive, sseUnsubscribe, thisStreamDone, sseStreams,
           processorActive, processorStopRequested, spc, sfrom, ppc, pbatch, starts,
           lastCall>>
vars == <<backend, qvars, wvars, cvars, gvars, svars, evars, ivars, pvars>>

Backends == {"sqlite", "idb"}

EmptyQueue == [id \in Ids |-> NoRow]

NoItems == [id \in {} |-> NoRow]

NoEv == [outpoint |-> Outpoint("-", 0), score |-> 0, spendTxid |-> NoSpend]

NoSub == 0

NoOp == [op |-> "none", ev |-> NoEv, h |-> 0, pre |-> EmptyQueue,
         ret |-> NoItems, enqs |-> <<>>, n |-> 0]

Op(name, e, h, pre, ret, enqs) ==
  [op |-> name, ev |-> e, h |-> h, pre |-> pre, ret |-> ret, enqs |-> enqs,
   n |-> 0]

Tx(kind, arg, t) == [kind |-> kind, arg |-> arg, t |-> t]

EventNames == {"sync:start", "sync:error"}

NoEmit == [event |-> "-", callbacks |-> <<>>, invoked |-> <<>>, threw |-> FALSE]

NoCall == [fn |-> "-", outcome |-> "-", owners |-> {}]

Addresses == {"addr"}

NoIngest == [txid |-> "-", count |-> 0, transactions |-> <<>>, outputs |-> <<>>,
             again |-> FALSE]

\* no processTxid call ended its storage work in the last step
NoProcess == [txid |-> "-", spendMap |-> {}, path |-> "-", next |-> "-"]

\* The wallet after `new OneSatWallet(args)` without autoSync, over a queue
\* that holds the given rows.
\* no transaction has been parsed
NoCtx == [stage |-> "none", spends |-> <<>>, txos |-> <<>>, stored |-> <<>>]

Constructed(argsSyncQueue, argsOwners, rows) ==
  /\ backend \in Backends
  /\ queue = rows
  /\ syncState = [lastQueuedScore |-> 0, lastSyncedAt |-> 0]
  /\ now = 0
  /\ txq = <<>>
  /\ setq = <<>>
  /\ pc = "idle"
  /\ syncRunning = FALSE
  /\ syncStopRequested = FALSE
  /\ activeQueueSync = NoSub
  /\ streamDone = FALSE
  /\ fromScore = 0
  /\ currentHeight = 0
  /\ sess = 0
  /\ streams = {}
  /\ claimTodo = {}
  /\ claimItems = NoItems
  /\ claimNow = 0
  /\ batch = NoItems
  /\ completeEmits = 0
  /\ crashes = 0
  /\ lastEmit = "none"
  /\ lastOp = NoOp
  /\ claimPre = EmptyQueue
  /\ claimEnqs = <<>>
  /\ prevScore = 0
  /\ claimed = {}
  /\ recovered = FALSE
  /\ transactions = <<>>
  /\ outputs = <<>>
  /\ ingests = {}
  /\ ingestCalls = 0
  /\ ingested = {}
  /\ lastIngest = NoIngest
  /\ spends = {}
  /\ lastProcess = NoProcess
  /\ listeners = [event \in EventNames |-> <<>>]
  /\ emitted = NoEmit
  /\ syncQueue = argsSyncQueue
  /\ owners = argsOwners
  /\ sseStreamActive = FALSE
  /\ sseUnsubscribe = NoSub
  /\ thisStreamDone = FALSE
  /\ sseStreams = {}
  /\ processorActive = FALSE
  /\ processorStopRequested = FALSE
  /\ spc = "idle"
  /\ sfrom = 0
  /\ ppc = "idle"
  /\ pbatch = NoItems
  /\ starts = 0
  /\ lastCall = NoCall
  /\ ctx = NoCtx

\* A wallet with a sync queue and an owner
Init == Constructed(TRUE, Addresses, EmptyQueue)

\* Any wallet over an empty queue
InitAny ==
  \E argsSyncQueue \in BOOLEAN, argsOwners \in SUBSET Addresses :
    Constructed(argsSyncQueue, argsOwners, EmptyQueue)

\* The rows an earlier process left: the outputs of A and B were enqueued
\* and nothing was claimed
Backlog ==
  [id \in Ids |->
     IF id[2] = 25
       THEN NoRow
       ELSE Row(id[1], id[2], NoSpend, "pending", 0, NoError, 0, 0)]

InitBacklog == Constructed(TRUE, Addresses, Backlog)

\* Nothing but the issued queue call may run inside a task of the SQLite
\* backend; IndexedDB transactions complete in later tasks.
Quiet == backend = "idb" \/ (txq = <<>> /\ setq = <<>> /\ pc # "getState")

Enqueue(q, e, t) ==
  IF backend = "sqlite" THEN SqliteEnqueue(q, e, t) ELSE IdbEnqueue(q, e, t)

\* blockHeight <= currentHeight - REORG_SAFE_DEPTH
ReorgSafe_Always(score, height) == TRUE

ReorgSafe(score, height) == Floor(score) <= height - REORG_SAFE_DEPTH

\* isStreamDone() in processQueueLoop
IsStreamDone_Always == TRUE

IsStreamDone_Never == FALSE

IsStreamDone == streamDone

(***************************************************************************)
(* sync(): the guards, resetProcessing, getState, getHeight, the stream.   *)
(***************************************************************************)
InClaim == pc \in {"seed", "gather", "mark"}

Ghost(emit, op) ==
  /\ lastEmit' = emit
  /\ lastOp' = op
  /\ prevScore' = syncState.lastQueuedScore
  /\ claimed' = claimed
  /\ recovered' = recovered
  /\ UNCHANGED <<svars, evars, ivars, pvars>>

\* this.syncRunning = false; this.activeQueueSync = null
Return ==
  /\ pc' = "idle"
  /\ syncRunning' = FALSE
  /\ activeQueueSync' = NoSub

\* while (!this.syncStopRequested) { ... claim(this.syncBatchSize)
\* q is the transaction queue the step leaves before claim() is called.
EnterLoop(q) ==
  IF syncStopRequested
    THEN /\ Return
         /\ txq' = q
         /\ UNCHANGED <<claimNow, claimPre, claimEnqs>>
    ELSE /\ pc' = "seed"
         /\ txq' = Append(q, Tx("seed", "-", now))
         /\ claimNow' = now
         /\ claimPre' = queue
         /\ claimEnqs' = <<>>
         /\ UNCHANGED <<syncRunning, activeQueueSync>>

\* byTxid.size === 0: sync:complete and break when the stream is done,
\* otherwise the 100 ms sleep.
EmptyClaim ==
  IF IsStreamDone
    THEN /\ Return
         /\ completeEmits' = completeEmits + 1
         /\ lastEmit' = "complete"
    ELSE /\ pc' = "sleep"
         /\ UNCHANGED <<syncRunning, activeQueueSync, completeEmits>>
         /\ lastEmit' = "none"

\* sync() up to the first await
SyncCall ==
  /\ Quiet
  /\ syncQueue
  /\ ~syncRunning
  /\ owners # {}
  /\ sess < MaxSessions
  /\ sess' = sess + 1
  /\ syncRunning' = TRUE
  /\ syncStopRequested' = FALSE
  /\ pc' = "reset"
  /\ txq' = Append(txq, Tx("reset", "-", now))
  /\ completeEmits' = 0
  /\ Ghost("none", NoOp)
  /\ UNCHANGED <<backend, queue, syncState, now, setq, activeQueueSync, streamDone,
                 fromScore, currentHeight, streams, cvars, crashes, claimPre,
                 claimEnqs>>

\* const state = await this.syncQueue.getState()
GetStateReturn ==
  /\ pc = "getState"
  /\ fromScore' = syncState.lastQueuedScore
  /\ pc' = "getHeight"
  /\ Ghost("none", NoOp)
  /\ UNCHANGED <<backend, qvars, syncRunning, syncStopRequested, activeQueueSync,
                 streamDone, currentHeight, sess, streams, cvars, completeEmits,
                 crashes, claimPre, claimEnqs>>

Stream(k, h, from) == [sess |-> k, height |-> h, from |-> from, sent |-> {}]

\* getHeight() returns: sync:start, the subscription, the first claim
GetHeightReturn ==
  /\ Quiet
  /\ pc = "getHeight"
  /\ \E h \in Heights :
       /\ h >= currentHeight
       /\ currentHeight' = h
       /\ streams' = streams \cup {Stream(sess, h, fromScore)}
  /\ streamDone' = FALSE
  /\ IF syncStopRequested
       THEN /\ Return
            /\ UNCHANGED <<txq, claimNow, claimPre, claimEnqs>>
       ELSE /\ pc' = "seed"
            /\ txq' = Append(txq, Tx("seed", "-", now))
            /\ claimNow' = now
            /\ claimPre' = queue
            /\ claimEnqs' = <<>>
            /\ syncRunning' = TRUE
            /\ activeQueueSync' = sess
  /\ Ghost("start", NoOp)
  /\ UNCHANGED <<backend, queue, syncState, now, setq, syncStopRequested, fromScore,
                 sess, claimTodo, claimItems, batch, completeEmits, crashes>>

(***************************************************************************)
(* The SSE stream of OwnerClient.sync: events in score order, none below   *)
(* `from`, each output once per subscription; then done or an error.       *)
(***************************************************************************)
StreamLast(st) == MaxOf({st.from} \cup { id[2] : id \in st.sent })

CanDeliver(st, e) ==
  /\ IdOf(e.outpoint, e.score) \notin st.sent
  /\ e.score >= StreamLast(st)

\* onmessage -> onOutput -> handleSyncOutput up to `await enqueue`
Deliver ==
  /\ Quiet
  /\ now < MaxDeliver
  /\ \E st \in streams, e \in Events :
       /\ CanDeliver(st, e)
       /\ streams' = (streams \ {st}) \cup
                       {[st EXCEPT !.sent = @ \cup {IdOf(e.outpoint, e.score)}]}
       /\ txq' = Append(txq, Tx("enqueue", [ev |-> e, height |-> st.height], now + 1))
  /\ now' = now + 1
  /\ Ghost("none", NoOp)
  /\ UNCHANGED <<backend, queue, syncState, setq, pc, syncRunning, syncStopRequested,
                 activeQueueSync, streamDone, fromScore, currentHeight, sess, cvars,
                 completeEmits, crashes, claimPre, claimEnqs>>

\* The callbacks of a subscription write the streamDone local of the sync()
\* call that opened it.
SetsStreamDone(st) == st.sess = sess /\ pc # "idle"

\* "done" event: eventSource.close(); onDone()
StreamDone ==
  /\ Quiet
  /\ \E st \in streams :
       /\ streams' = streams \ {st}
       /\ streamDone' = IF SetsStreamDone(st) THEN TRUE ELSE streamDone
  /\ Ghost("none", NoOp)
  /\ UNCHANGED <<backend, qvars, pc, syncRunning, syncStopRequested, activeQueueSync,
                 fromScore, currentHeight, sess, cvars, completeEmits, crashes,
                 claimPre, claimEnqs>>

\* onerror: eventSource.close(); onError(...) emits sync:error
StreamError ==
  /\ Quiet
  /\ \E st \in streams :
       /\ streams' = streams \ {st}
       /\ streamDone' = IF SetsStreamDone(st) THEN TRUE ELSE streamDone
  /\ Ghost("error", NoOp)
  /\ UNCHANGED <<backend, qvars, pc, syncRunning, syncStopRequested, activeQueueSync,
                 fromScore, currentHeight, sess, cvars, completeEmits, crashes,
                 claimPre, claimEnqs>>

\* stopStream()
StopStream ==
  /\ sseStreams' = { st \in sseStreams : st.sess # sseUnsubscribe }
  /\ sseUnsubscribe' = NoSub
  /\ sseStreamActive' = FALSE

\* stopProcessor()
StopProcessor == processorStopRequested' = TRUE

\* stopSync()
StopSync ==
  /\ Quiet
  /\ syncRunning
  /\ syncStopRequested' = TRUE
  /\ streams' = { st \in streams : st.sess # activeQueueSync }
  /\ activeQueueSync' = NoSub
  /\ StopStream
  /\ StopProcessor
  /\ lastEmit' = "none"
  /\ lastOp' = NoOp
  /\ prevScore' = syncState.lastQueuedScore
  /\ lastCall' = NoCall
  /\ UNCHANGED <<backend, qvars, pc, syncRunning, streamDone, fromScore,
                 currentHeight, sess, cvars, completeEmits, crashes, claimPre,
                 claimEnqs, claimed, recovered, svars, evars, ivars, syncQueue, owners,
                 thisStreamDone, processorActive, spc, sfrom, ppc, pbatch, starts>>

\* setState({lastQueuedScore, lastSyncedAt}) commits
ExecSetState ==
  /\ setq # <<>>
  /\ syncState' = [lastQueuedScore |-> Head(setq).score,
                   lastSyncedAt |-> Head(setq).t]
  /\ setq' = Tail(setq)
  /\ Ghost("none", NoOp)
  /\ UNCHANGED <<backend, queue, now, txq, wvars, cvars, completeEmits, crashes,
                 claimPre, claimEnqs>>

\* The process dies and is started again: everything in memory is lost, the
\* queue rows and the sync state stay.
Crash ==
  /\ crashes < MaxCrash
  /\ \/ pc # "idle" \/ txq # <<>> \/ setq # <<>> \/ streams # {}
     \/ spc # "idle" \/ ppc # "idle" \/ sseStreams # {}
  /\ crashes' = crashes + 1
  /\ txq' = <<>>
  /\ setq' = <<>>
  /\ pc' = "idle"
  /\ syncRunning' = FALSE
  /\ syncStopRequested' = FALSE
  /\ activeQueueSync' = NoSub
  /\ streamDone' = FALSE
  /\ fromScore' = 0
  /\ streams' = {}
  /\ claimTodo' = {}
  /\ claimItems' = NoItems
  /\ claimNow' = 0
  /\ batch' = NoItems
  /\ completeEmits' = 0
  /\ claimPre' = EmptyQueue
  /\ claimEnqs' = <<>>
  /\ lastEmit' = "none"
  /\ lastOp' = NoOp
  /\ prevScore' = syncState.lastQueuedScore
  /\ recovered' = FALSE
  /\ sseStreamActive' = FALSE
  /\ sseUnsubscribe' = NoSub
  /\ thisStreamDone' = FALSE
  /\ sseStreams' = {}
  /\ processorActive' = FALSE
  /\ processorStopRequested' = FALSE
  /\ spc' = "idle"
  /\ sfrom' = 0
  /\ ppc' = "idle"
  /\ pbatch' = NoItems
  /\ lastCall' = NoCall
  /\ UNCHANGED <<backend, queue, syncState, now, currentHeight, sess, claimed, svars,
                 evars, ivars, syncQueue, owners, starts>>

(***************************************************************************)
(* The queue calls, executed in the order they were issued.                *)
(***************************************************************************)
HeadIs(kind) == txq # <<>> /\ Head(txq).kind = kind

\* resetProcessing() commits; sync() goes on to getState()
ExecReset ==
  /\ HeadIs("reset")
  /\ queue' = ResetProcessing(queue, Head(txq).t)
  /\ txq' = Tail(txq)
  /\ pc' = "getState"
  /\ lastEmit' = "none"
  /\ lastOp' = [Op("reset", NoEv, 0, queue, NoItems, <<>>)
                  EXCEPT !.n = ResetProcessingCount(queue)]
  /\ prevScore' = syncState.lastQueuedScore
  /\ UNCHANGED <<backend, syncState, now, setq, syncRunning, syncStopRequested,
                 activeQueueSync, streamDone, fromScore, currentHeight, sess,
                 streams, cvars, completeEmits, crashes, claimPre, claimEnqs>>
  /\ claimed' = claimed
  /\ recovered' = TRUE
  /\ UNCHANGED <<svars, evars, ivars, pvars>>

\* enqueue([output]) commits; handleSyncOutput goes on to the re-org guard
\* and setState
ExecEnqueue ==
  /\ HeadIs("enqueue")
  /\ LET tx == Head(txq)
         e == tx.arg.ev
     IN  /\ queue' = Enqueue(queue, e, tx.t)
         /\ setq' = IF ReorgSafe(e.score, tx.arg.height)
                      THEN Append(setq, [score |-> e.score, t |-> now,
                                         height |-> tx.arg.height])
                      ELSE setq
         /\ lastOp' = Op("enqueue", e, tx.arg.height, queue, NoItems, <<>>)
         /\ claimEnqs' = IF InClaim THEN Append(claimEnqs, tx) ELSE claimEnqs
  /\ txq' = Tail(txq)
  /\ lastEmit' = "none"
  /\ prevScore' = syncState.lastQueuedScore
  /\ UNCHANGED <<backend, syncState, now, wvars, cvars, completeEmits, crashes,
                 claimPre>>
  /\ claimed' = claimed
  /\ recovered' = recovered
  /\ UNCHANGED <<svars, evars, ivars, pvars>>

\* The txid groups Promise.all runs processTxid over
NewBatch(items) ==
  [txid \in ItemTxids(items) |->
     [items |-> [id \in GroupIds(items, txid) |-> items[id]],
      phase |-> "work", failed |-> {}]]

\* The first txid of the Set, in insertion order
FirstTxid(S) == CHOOSE t \in S : \A u \in S : TxRank(t) <= TxRank(u)

\* SQLite claim(): the whole call is one synchronous block
ExecSeedSqlite ==
  /\ backend = "sqlite"
  /\ HeadIs("seed")
  /\ \E seeds \in SqliteSeedChoices(queue, BatchSize) :
       LET items == SqliteClaimItems(queue, seeds, Head(txq).t)
       IN  /\ lastOp' = Op("claim", NoEv, 0, claimPre, items, claimEnqs)
           /\ claimed' = claimed \cup DOMAIN items
           /\ recovered' = recovered
           /\ IF seeds = {}
                THEN /\ EmptyClaim
                     /\ UNCHANGED <<queue, batch>>
                ELSE /\ queue' = SqliteMarkProcessing(queue, DOMAIN items, Head(txq).t)
                     /\ batch' = NewBatch(items)
                     /\ pc' = "batch"
                     /\ lastEmit' = "none"
                     /\ UNCHANGED <<syncRunning, activeQueueSync, completeEmits>>
  /\ txq' = Tail(txq)
  /\ claimPre' = EmptyQueue
  /\ claimEnqs' = <<>>
  /\ prevScore' = syncState.lastQueuedScore
  /\ UNCHANGED <<backend, syncState, now, setq, syncStopRequested, streamDone,
                 fromScore, currentHeight, sess, streams, claimTodo, claimItems,
                 claimNow, crashes>>
  /\ UNCHANGED <<svars, evars, ivars, pvars>>

\* IndexedDB claim(), step 1 and 2: the seed cursor, the txid set
ExecSeedIdb ==
  /\ backend = "idb"
  /\ HeadIs("seed")
  /\ LET seeds == IdbSeeds(queue, BatchSize)
         txids == SeedTxids(queue, seeds)
     IN  IF seeds = {}
           THEN /\ EmptyClaim
                /\ txq' = Tail(txq)
                /\ lastOp' = Op("claim", NoEv, 0, claimPre, NoItems, claimEnqs)
                /\ claimPre' = EmptyQueue
                /\ claimEnqs' = <<>>
                /\ UNCHANGED claimTodo
           ELSE /\ claimTodo' = txids
                /\ txq' = Append(Tail(txq), Tx("gather", FirstTxid(txids), now))
                /\ pc' = "gather"
                /\ lastEmit' = "none"
                /\ lastOp' = NoOp
                /\ UNCHANGED <<syncRunning, activeQueueSync, completeEmits, claimPre,
                               claimEnqs>>
  /\ prevScore' = syncState.lastQueuedScore
  /\ UNCHANGED <<backend, queue, syncState, now, setq, syncStopRequested, streamDone,
                 fromScore, currentHeight, sess, streams, claimItems, claimNow,
                 batch, crashes>>
  /\ claimed' = claimed
  /\ recovered' = recovered
  /\ UNCHANGED <<svars, evars, ivars, pvars>>

Merge(f, g) ==
  [x \in DOMAIN f \cup DOMAIN g |-> IF x \in DOMAIN g THEN g[x] ELSE f[x]]

Without(f, k) == [x \in DOMAIN f \ {k} |-> f[x]]

\* IndexedDB claim(), step 3: getPendingByTxid of one txid; after the last
\* one, markProcessing is called (it returns at once for no items)
ExecGather ==
  /\ HeadIs("gather")
  /\ LET txid == Head(txq).arg
         found == IdbPendingByTxid(queue, txid)
         items == Merge(claimItems, [id \in found |-> queue[id]])
         todo == claimTodo \ {txid}
     IN  /\ claimTodo' = todo
         /\ IF todo # {}
              THEN /\ txq' = Append(Tail(txq), Tx("gather", FirstTxid(todo), now))
                   /\ claimItems' = items
                   /\ lastEmit' = "none"
                   /\ lastOp' = NoOp
                   /\ UNCHANGED <<pc, syncRunning, activeQueueSync, completeEmits,
                                  claimPre, claimEnqs>>
              ELSE IF DOMAIN items = {}
                THEN /\ EmptyClaim
                     /\ txq' = Tail(txq)
                     /\ claimItems' = NoItems
                     /\ lastOp' = Op("claim", NoEv, 0, claimPre, NoItems, claimEnqs)
                     /\ claimPre' = EmptyQueue
                     /\ claimEnqs' = <<>>
                ELSE /\ txq' = Append(Tail(txq), Tx("mark", "-", now))
                     /\ claimItems' = items
                     /\ pc' = "mark"
                     /\ lastEmit' = "none"
                     /\ lastOp' = NoOp
                     /\ UNCHANGED <<syncRunning, activeQueueSync, completeEmits,
                                    claimPre, claimEnqs>>
  /\ prevScore' = syncState.lastQueuedScore
  /\ UNCHANGED <<backend, queue, syncState, now, setq, syncStopRequested, streamDone,
                 fromScore, currentHeight, sess, streams, claimNow, batch, crashes>>
  /\ claimed' = claimed
  /\ recovered' = recovered
  /\ UNCHANGED <<svars, evars, ivars, pvars>>

\* IndexedDB claim(), step 4: markProcessing commits and claim() returns
ExecMark ==
  /\ HeadIs("mark")
  /\ LET ret == [id \in DOMAIN claimItems |-> RowToItem(claimItems[id], claimNow)]
     IN  /\ queue' = IdbMarkProcessing(queue, claimItems, claimNow)
         /\ batch' = NewBatch(ret)
         /\ lastOp' = Op("claim", NoEv, 0, claimPre, ret, claimEnqs)
  /\ txq' = Tail(txq)
  /\ pc' = "batch"
  /\ claimItems' = NoItems
  /\ claimPre' = EmptyQueue
  /\ claimEnqs' = <<>>
  /\ lastEmit' = "none"
  /\ prevScore' = syncState.lastQueuedScore
  /\ UNCHANGED <<backend, syncState, now, setq, syncRunning, syncStopRequested,
                 activeQueueSync, streamDone, fromScore, currentHeight, sess,
                 streams, claimTodo, claimNow, completeEmits, crashes>>
  /\ claimed' = claimed \cup DOMAIN claimItems
  /\ recovered' = recovered
  /\ UNCHANGED <<svars, evars, ivars, pvars>>

FirstId(S) == CHOOSE id \in S : \A j \in S : IdKey(id) <= IdKey(j)

\* processTxid: the ingest (or markOutputsSpent) returns and completeMany is
\* called, or it throws: sync:error, then fail() item by item
ProcessTxid ==
  /\ Quiet
  /\ pc \in {"batch", "rejected"}
  /\ \E txid \in DOMAIN batch, ok \in BOOLEAN :
       /\ batch[txid].phase = "work"
       /\ IF ok
            THEN /\ batch' = [batch EXCEPT ![txid].phase = "complete"]
                 /\ txq' = Append(txq, Tx("complete", txid, now))
                 /\ lastEmit' = "none"
            ELSE /\ batch' = [batch EXCEPT ![txid].phase = "fail"]
                 /\ txq' = Append(txq, Tx("fail",
                             [txid |-> txid, id |-> FirstId(DOMAIN batch[txid].items)],
                             now))
                 /\ lastEmit' = "error"
  /\ lastOp' = NoOp
  /\ prevScore' = syncState.lastQueuedScore
  /\ UNCHANGED <<backend, queue, syncState, now, setq, wvars, claimTodo, claimItems,
                 claimNow, completeEmits, crashes, claimPre, claimEnqs>>
  /\ claimed' = claimed
  /\ recovered' = recovered
  /\ UNCHANGED <<svars, evars, ivars, pvars>>

\* processTxid throws and the sync:error subscriber throws out of emit(),
\* which has no try/catch: the catch block is left before fail() is called,
\* processTxid rejects, Promise.all rejects, processQueueLoop and sync()
\* reject.  The other processTxid calls of the batch go on; syncRunning and
\* activeQueueSync are never reset.
ProcessTxidRejects ==
  /\ Quiet
  /\ pc \in {"batch", "rejected"}
  /\ \E txid \in DOMAIN batch :
       /\ batch[txid].phase = "work"
       /\ batch' = Without(batch, txid)
  /\ pc' = "rejected"
  /\ Ghost("error", NoOp)
  /\ UNCHANGED <<backend, qvars, syncRunning, syncStopRequested, activeQueueSync,
                 streamDone, fromScore, currentHeight, sess, streams, claimTodo,
                 claimItems, claimNow, completeEmits, crashes, claimPre, claimEnqs>>

\* Promise.all resolves with the last group: getStats() is called
AfterGroup(b, q) ==
  /\ batch' = b
  /\ IF DOMAIN b = {} /\ pc = "batch"
       THEN /\ txq' = Append(q, Tx("stats", "-", now))
            /\ pc' = "stats"
       ELSE /\ txq' = q
            /\ pc' = pc

\* completeMany(itemIds) commits
ExecComplete ==
  /\ HeadIs("complete")
  /\ LET txid == Head(txq).arg
         ids == DOMAIN batch[txid].items
     IN  /\ queue' = CompleteMany(queue, ids, Head(txq).t)
         /\ AfterGroup(Without(batch, txid), Tail(txq))
         /\ lastOp' = Op("complete", NoEv, 0, queue, batch[txid].items, <<>>)
  /\ lastEmit' = "none"
  /\ prevScore' = syncState.lastQueuedScore
  /\ UNCHANGED <<backend, syncState, now, setq, syncRunning, syncStopRequested,
                 activeQueueSync, streamDone, fromScore, currentHeight, sess,
                 streams, claimTodo, claimItems, claimNow, completeEmits, crashes,
                 claimPre, claimEnqs>>
  /\ claimed' = claimed \ DOMAIN batch[Head(txq).arg].items
  /\ recovered' = recovered
  /\ UNCHANGED <<svars, evars, ivars, pvars>>

\* fail(item.id, String(error)) commits; the loop goes to the next item
ExecFail ==
  /\ HeadIs("fail")
  /\ LET txid == Head(txq).arg.txid
         id == Head(txq).arg.id
         failed == batch[txid].failed \cup {id}
         left == DOMAIN batch[txid].items \ failed
     IN  /\ queue' = Fail(queue, id, "error", Head(txq).t)
         /\ IF left # {}
              THEN /\ batch' = [batch EXCEPT ![txid].failed = failed]
                   /\ txq' = Append(Tail(txq),
                               Tx("fail", [txid |-> txid, id |-> FirstId(left)], now))
                   /\ pc' = pc
              ELSE AfterGroup(Without(batch, txid), Tail(txq))
         /\ lastOp' = Op("fail", NoEv, 0, queue, [x \in {id} |-> queue[id]], <<>>)
  /\ lastEmit' = "none"
  /\ prevScore' = syncState.lastQueuedScore
  /\ UNCHANGED <<backend, syncState, now, setq, syncRunning, syncStopRequested,
                 activeQueueSync, streamDone, fromScore, currentHeight, sess,
                 streams, claimTodo, claimItems, claimNow, completeEmits, crashes,
                 claimPre, claimEnqs>>
  /\ claimed' = claimed \ {Head(txq).arg.id}
  /\ recovered' = recovered
  /\ UNCHANGED <<svars, evars, ivars, pvars>>

\* getStats() returns: sync:progress, then the loop condition
ExecStats ==
  /\ HeadIs("stats")
  /\ EnterLoop(Tail(txq))
  /\ Ghost("progress", NoOp)
  /\ UNCHANGED <<backend, queue, syncState, now, setq, syncStopRequested, streamDone,
                 fromScore, currentHeight, sess, streams, claimTodo, claimItems,
                 batch, completeEmits, crashes>>

\* setTimeout(r, 100) fires: continue
Timer ==
  /\ Quiet
  /\ pc = "sleep"
  /\ EnterLoop(txq)
  /\ Ghost("none", NoOp)
  /\ UNCHANGED <<backend, queue, syncState, now, setq, syncStopRequested, streamDone,
                 fromScore, currentHeight, sess, streams, claimTodo, claimItems,
                 batch, completeEmits, crashes>>

ExecTx ==
  \/ ExecReset
  \/ ExecEnqueue
  \/ ExecSeedSqlite
  \/ ExecSeedIdb
  \/ ExecGather
  \/ ExecMark
  \/ ExecComplete
  \/ ExecFail
  \/ ExecStats

Next ==
  \/ SyncCall
  \/ GetStateReturn
  \/ GetHeightReturn
  \/ Deliver
  \/ StreamDone
  \/ StreamError
  \/ StopSync
  \/ ExecTx
  \/ ExecSetState
  \/ ProcessTxid
  \/ ProcessTxidRejects
  \/ Timer
  \/ Crash

Spec == Init /\ [][Next]_vars

(***************************************************************************)
(* The queue used directly through SyncQueueStorage: a client that awaits  *)
(* each call before it issues the next one.  The calls that read           *)
(* Date.now() advance the clock.                                           *)
(***************************************************************************)
NoState == [lastQueuedScore |-> 0, lastSyncedAt |-> 0]

QueueCall(q, st, t, op, cl) ==
  /\ queue' = q
  /\ syncState' = st
  /\ now' = t
  /\ lastOp' = op
  /\ claimed' = cl
  /\ recovered' = (recovered \/ op.op = "reset")
  /\ lastEmit' = "none"
  /\ prevScore' = syncState.lastQueuedScore
  /\ UNCHANGED <<backend, txq, setq, wvars, cvars, completeEmits, crashes, claimPre,
                 claimEnqs, svars, evars, ivars, pvars>>

\* getByTxid / getByStatus: the rows as they are stored
Stored(q, ids) == [id \in ids |-> q[id]]

\* claim(count) with no other call in between: what it returns
ClaimResults(q, count, t) ==
  IF backend = "sqlite"
    THEN { SqliteClaimItems(q, seeds, t) : seeds \in SqliteSeedChoices(q, count) }
    ELSE LET txids == SeedTxids(q, IdbSeeds(q, count))
             ids == UNION { IdbPendingByTxid(q, txid) : txid \in txids }
         IN  { [id \in ids |-> RowToItem(q[id], t)] }

\* ... and the queue it leaves
ClaimMarks(q, ids, t) ==
  IF backend = "sqlite"
    THEN SqliteMarkProcessing(q, ids, t)
    ELSE IdbMarkProcessing(q, Stored(q, ids), t)

CallEnqueue ==
  /\ now < MaxCalls
  /\ \E e \in Events :
       QueueCall(Enqueue(queue, e, now + 1), syncState, now + 1,
                 Op("enqueue", e, 0, queue, NoItems, <<>>), claimed)

CallClaim ==
  /\ now < MaxCalls
  /\ \E items \in ClaimResults(queue, BatchSize, now + 1) :
       QueueCall(ClaimMarks(queue, DOMAIN items, now + 1), syncState, now + 1,
                 Op("claim", NoEv, 0, queue, items, <<>>),
                 claimed \cup DOMAIN items)

\* complete(id): return this.completeMany([id])
CallComplete ==
  /\ now < MaxCalls
  /\ \E id \in Ids :
       QueueCall(CompleteMany(queue, {id}, now + 1), syncState, now + 1,
                 Op("complete", NoEv, 0, queue, Stored(queue, {id}), <<>>),
                 claimed \ {id})

\* completeMany(ids) with no id (returns at once) or the ids of one txid
CallCompleteMany ==
  /\ now < MaxCalls
  /\ \E ids \in {{}} \cup { { id \in Ids : TxidOf(id[1]) = txid } : txid \in Txids } :
       QueueCall(IF ids = {} THEN queue ELSE CompleteMany(queue, ids, now + 1),
                 syncState, now + 1,
                 Op("completeMany", NoEv, 0, queue, Stored(queue, ids), <<>>),
                 claimed \ ids)

CallFail ==
  /\ now < MaxCalls
  /\ \E id \in Ids :
       QueueCall(Fail(queue, id, "error", now + 1), syncState, now + 1,
                 Op("fail", NoEv, 0, queue, Stored(queue, {id}), <<>>),
                 claimed \ {id})

CallResetProcessing ==
  /\ now < MaxCalls
  /\ QueueCall(ResetProcessing(queue, now + 1), syncState, now + 1,
               [Op("reset", NoEv, 0, queue, NoItems, <<>>)
                  EXCEPT !.n = ResetProcessingCount(queue)],
               claimed)

CallGetByTxid ==
  \E txid \in Txids :
    QueueCall(queue, syncState, now,
              Op("getByTxid", NoEv, 0, queue,
                 Stored(queue, { id \in RowsOf(queue) :
                                   SqliteLike(queue[id].outpoint, txid) }), <<>>),
              claimed)

CallGetByStatus ==
  \E st \in Statuses :
    QueueCall(queue, syncState, now,
              Op("getByStatus", NoEv, 0, queue,
                 Stored(queue, WithStatus(queue, st)), <<>>),
              claimed)

CallGetStats ==
  QueueCall(queue, syncState, now,
            [Op("getStats", NoEv, 0, queue, NoItems, <<>>)
               EXCEPT !.n = GetStats(queue)["processing"]],
            claimed)

CallGetState ==
  QueueCall(queue, syncState, now,
            [Op("getState", NoEv, 0, queue, NoItems, <<>>)
               EXCEPT !.n = syncState.lastQueuedScore],
            claimed)

\* setState({lastQueuedScore}): { ...current, ...state }
CallSetState ==
  \E score \in {10, 40} :
    QueueCall(queue, [syncState EXCEPT !.lastQueuedScore = score], now,
              Op("setState", NoEv, 0, queue, NoItems, <<>>), claimed)

\* clear(): DELETE FROM queue; DELETE FROM state
CallClear ==
  /\ now < MaxCalls
  /\ QueueCall(EmptyQueue, NoState, now + 1,
               Op("clear", NoEv, 0, queue, NoItems, <<>>), claimed)

NextQueue ==
  \/ CallEnqueue
  \/ CallClaim
  \/ CallComplete
  \/ CallCompleteMany
  \/ CallFail
  \/ CallResetProcessing
  \/ CallGetByTxid
  \/ CallGetByStatus
  \/ CallGetStats
  \/ CallGetState
  \/ CallSetState
  \/ CallClear

SpecQueue == Init /\ [][NextQueue]_vars

(***************************************************************************)
(* Wallet storage and ingestTransaction.                                   *)
(*                                                                         *)
(* The transactions the wallet can be handed: A pays two outputs to the    *)
(* wallet; B spends A_0 and pays one output to the wallet and one to       *)
(* somebody else; C spends A_1 and B_0 and pays one output to the wallet.  *)
(* Every output is worth one satoshi.                                      *)
(***************************************************************************)
WalletTxids == {"A", "B", "C"}

OutPoints(txid) ==
  CASE txid = "A" -> <<>>
    [] txid = "B" -> <<Outpoint("A", 0)>>
    [] txid = "C" -> <<Outpoint("A", 1), Outpoint("B", 0)>>

\* tx.inputs: sourceTXID, sourceOutputIndex and whether sourceTransaction is set
Inputs(txid, hydrated) ==
  [k \in 1 .. Len(OutPoints(txid)) |->
     [sourceTXID |-> TxidOf(OutPoints(txid)[k]),
      sourceOutputIndex |-> VoutOf(OutPoints(txid)[k]),
      sourceTransaction |-> hydrated]]

\* ctx.txos.filter((txo) => txo.owner && this.owners.has(txo.owner)), as vouts
OwnedTxos(txid) == IF txid = "A" THEN {0, 1} ELSE {0}

Labels == {{}, {"sync"}}

\* The StorageProvider operations.  Rows are kept in insertion order; the id
\* of a row is its position.
FindTransactions(T, txid) == { i \in 1 .. Len(T) : T[i].txid = txid }

InsertTransaction(T, row) == Append(T, row)

FindOutputs(O, txid, vout) ==
  { i \in 1 .. Len(O) : O[i].txid = txid /\ O[i].vout = vout }

InsertOutput(O, row) == Append(O, row)

UpdateOutput(O, outputId, patch) == [O EXCEPT ![outputId] = patch @@ @]

\* rows[0]
FirstRow(S) == CHOOSE i \in S : \A j \in S : i <= j

\* spentBy: undefined
NoSpentBy == 0

\* The inputs that spend an output row of the wallet: isOutgoing, satoshisSpent
SpendsOwn(O, inputs) ==
  { k \in 1 .. Len(inputs) :
      FindOutputs(O, inputs[k].sourceTXID, inputs[k].sourceOutputIndex) # {} }

\* newTx; the label links of the row are kept in the row
NewTx(O, txid, description, labels) ==
  [txid |-> txid,
   description |-> description,
   isOutgoing |-> SpendsOwn(O, Inputs(txid, TRUE)) # {},
   satoshis |-> Cardinality(OwnedTxos(txid))
                  - Cardinality(SpendsOwn(O, Inputs(txid, TRUE))),
   labels |-> labels]

\* the "source transaction" row
SourceTx(sourceTxid) ==
  [txid |-> sourceTxid, description |-> "source transaction", isOutgoing |-> FALSE,
   satoshis |-> 0, labels |-> {}]

\* existing.length > 0
SourceExists_Never(T, sourceTxid) == FALSE

SourceExists(T, sourceTxid) == FindTransactions(T, sourceTxid) # {}

\* Persist source transactions: the loop over txQueue.  deep says whether
\* the inputs of a source transaction carry their own sourceTransaction
\* (a transaction loaded from a BEEF does, one loaded from storage does not).
RECURSIVE PersistSources(_, _, _)
PersistSources(T, txQueue, deep) ==
  IF txQueue = <<>>
    THEN T
    ELSE LET input == Head(txQueue)
         IN  IF ~input.sourceTransaction \/ SourceExists(T, input.sourceTXID)
               THEN PersistSources(T, Tail(txQueue), deep)
               ELSE PersistSources(InsertTransaction(T, SourceTx(input.sourceTXID)),
                                   Tail(txQueue) \o Inputs(input.sourceTXID, deep),
                                   deep)

\* the loop that marks the inputs' outputs as spent
RECURSIVE MarkInputsSpent(_, _, _)
MarkInputsSpent(O, inputs, transactionId) ==
  IF inputs = <<>>
    THEN O
    ELSE LET spentOutputs == FindOutputs(O, Head(inputs).sourceTXID,
                                         Head(inputs).sourceOutputIndex)
         IN  MarkInputsSpent(
               IF spentOutputs # {}
                 THEN UpdateOutput(O, FirstRow(spentOutputs),
                                   [spendable |-> FALSE, spentBy |-> transactionId])
                 ELSE O,
               Tail(inputs), transactionId)

\* Mark inputs as spent (only for new transactions)
SpendsApplied_Always(O, inputs, transactionId, isNewTransaction) ==
  MarkInputsSpent(O, inputs, transactionId)

SpendsApplied(O, inputs, transactionId, isNewTransaction) ==
  IF isNewTransaction THEN MarkInputsSpent(O, inputs, transactionId) ELSE O

\* existingOutputs.length > 0
OutputExists_Never(O, txid, vout) == FALSE

OutputExists(O, txid, vout) == FindOutputs(O, txid, vout) # {}

\* newOutput with its tag links
NewOutput(txid, vout, transactionId) ==
  [txid |-> txid, vout |-> vout, transactionId |-> transactionId,
   spendable |-> TRUE, spentBy |-> NoSpentBy, tags |-> {"own"}]

\* Create output records for owned outputs, in vout order
RECURSIVE CreateOutputs(_, _, _, _)
CreateOutputs(O, txid, vouts, transactionId) ==
  IF vouts = {}
    THEN O
    ELSE LET vout == CHOOSE v \in vouts : \A w \in vouts : v <= w
         IN  CreateOutputs(
               IF OutputExists(O, txid, vout)
                 THEN O
                 ELSE InsertOutput(O, NewOutput(txid, vout, transactionId)),
               txid, vouts \ {vout}, transactionId)

\* The storage transaction of ingestTransaction: the rows it leaves and its
\* return value outputsCreated.
Ingest(T, O, txid, description, labels, deep) ==
  LET existingTxs == FindTransactions(T, txid)
      isNewTransaction == existingTxs = {}
      transactionId == IF isNewTransaction THEN Len(T) + 1 ELSE FirstRow(existingTxs)
      T1 == IF isNewTransaction
              THEN PersistSources(
                     InsertTransaction(T, NewTx(O, txid, description, labels)),
                     Inputs(txid, TRUE), deep)
              ELSE T
      O1 == SpendsApplied(O, Inputs(txid, TRUE), transactionId, isNewTransaction)
      O2 == CreateOutputs(O1, txid, OwnedTxos(txid), transactionId)
  IN  [transactions |-> T1, outputs |-> O2, outputsCreated |-> Len(O2) - Len(O1)]

IngestFrame == UNCHANGED <<backend, qvars, wvars, cvars, gvars, evars, ivars, pvars>>

\* ingestTransaction(tx, description, labels) is called: the parser runs
IngestCall ==
  /\ ingestCalls < MaxIngests
  /\ \E txid \in WalletTxids, labels \in Labels, deep \in BOOLEAN :
       ingests' = ingests \cup {[call |-> ingestCalls + 1, txid |-> txid,
                                 labels |-> labels, deep |-> deep]}
  /\ ingestCalls' = ingestCalls + 1
  /\ lastIngest' = NoIngest
  /\ lastProcess' = NoProcess
  /\ UNCHANGED <<transactions, outputs, ingested, spends>>
  /\ IngestFrame

\* runAsStorageProvider / sp.transaction: the storage transaction of one of
\* the calls in flight runs as a serializable unit and the call returns
IngestReturn ==
  /\ \E c \in ingests :
       LET r == Ingest(transactions, outputs, c.txid, "1sat-sync", c.labels, c.deep)
       IN  /\ transactions' = r.transactions
           /\ outputs' = r.outputs
           /\ ingests' = ingests \ {c}
           /\ ingested' = ingested \cup {c.txid}
           /\ lastIngest' = [txid |-> c.txid, count |-> r.outputsCreated,
                             transactions |-> transactions, outputs |-> outputs,
                             again |-> c.txid \in ingested]
  /\ lastProcess' = NoProcess
  /\ UNCHANGED <<ingestCalls, spends>>
  /\ IngestFrame

\* the parser or the storage transaction throws: the transaction is rolled
\* back and the call rejects
IngestThrows ==
  /\ \E c \in ingests : ingests' = ingests \ {c}
  /\ lastIngest' = NoIngest
  /\ lastProcess' = NoProcess
  /\ UNCHANGED <<transactions, outputs, ingestCalls, ingested, spends>>
  /\ IngestFrame

NextIngest ==
  \/ IngestCall
  \/ IngestReturn
  \/ IngestThrows

SpecIngest == Init /\ [][NextIngest]_vars

(***************************************************************************)
(* The storage work of processTxid.  A group with an item that reports the *)
(* output unspent goes through ingestWithSpendInfo: ingestTransaction in   *)
(* its own storage transaction and then, when the group carries spends, a  *)
(* second storage transaction for the outputs known to be spent.  A group  *)
(* of spends only goes through markOutputsSpent.  spendMap is kept as the  *)
(* set of its keys, the vouts.                                             *)
(***************************************************************************)
\* outputs.length > 0 && outputs[0].spendable && outputs[0].outputId:
\* updateOutput(outputId, { spendable: false })
PatchSpent_SpentBy(O, txid, vout) ==
  LET found == FindOutputs(O, txid, vout)
  IN  IF found # {} /\ O[FirstRow(found)].spendable
        THEN UpdateOutput(O, FirstRow(found), [spendable |-> FALSE, spentBy |-> 1])
        ELSE O

PatchSpent(O, txid, vout) ==
  LET found == FindOutputs(O, txid, vout)
  IN  IF found # {} /\ O[FirstRow(found)].spendable
        THEN UpdateOutput(O, FirstRow(found), [spendable |-> FALSE])
        ELSE O

\* ingestWithSpendInfo: for (const [vout] of spendMap)
RECURSIVE MarkKnownSpent(_, _, _)
MarkKnownSpent(O, txid, spendMap) ==
  IF spendMap = {}
    THEN O
    ELSE LET vout == CHOOSE v \in spendMap : \A w \in spendMap : v <= w
         IN  MarkKnownSpent(PatchSpent(O, txid, vout), txid, spendMap \ {vout})

\* markOutputsSpent: for (const item of items), the items with a spendTxid
RECURSIVE MarkOutputsSpent(_, _, _)
MarkOutputsSpent(O, txid, vouts) ==
  IF vouts = {}
    THEN O
    ELSE LET vout == CHOOSE v \in vouts : \A w \in vouts : v <= w
         IN  MarkOutputsSpent(PatchSpent(O, txid, vout), txid, vouts \ {vout})

\* what processTxid does next with the items of call c: completeMany, or
\* fail item by item from its catch block
Processed(c, next) ==
  [txid |-> c.txid, spendMap |-> c.spendMap,
   path |-> IF c.stage = "markOutputsSpent" THEN "markOutputsSpent"
                                              ELSE "ingestWithSpendInfo",
   next |-> next]

\* processTxid(txid, items) builds spendMap and hasUnspentCreation and
\* calls ingestWithSpendInfo or markOutputsSpent
ProcessStorageCall ==
  /\ ingestCalls < MaxIngests
  /\ \E txid \in WalletTxids, spendMap \in SUBSET {0, 1},
        hasUnspentCreation \in BOOLEAN, deep \in BOOLEAN :
       /\ spendMap \subseteq OwnedTxos(txid)
       /\ ~hasUnspentCreation => spendMap # {} /\ ~deep
       /\ spends' = spends \cup
            {[call |-> ingestCalls + 1, txid |-> txid, spendMap |-> spendMap,
              deep |-> deep,
              stage |-> IF hasUnspentCreation THEN "ingest" ELSE "markOutputsSpent"]}
  /\ ingestCalls' = ingestCalls + 1
  /\ lastIngest' = NoIngest
  /\ lastProcess' = NoProcess
  /\ UNCHANGED <<transactions, outputs, ingests, ingested>>
  /\ IngestFrame

\* ingestWithSpendInfo: loadTransaction and ingestTransaction(tx, "1sat-sync");
\* its storage transaction commits.  Without spends the call is over.
IngestWithSpendInfoIngests ==
  /\ \E c \in spends :
       /\ c.stage = "ingest"
       /\ LET r == Ingest(transactions, outputs, c.txid, "1sat-sync", {}, c.deep)
          IN  /\ transactions' = r.transactions
              /\ outputs' = r.outputs
              /\ lastIngest' = [txid |-> c.txid, count |-> r.outputsCreated,
                                transactions |-> transactions, outputs |-> outputs,
                                again |-> c.txid \in ingested]
       /\ ingested' = ingested \cup {c.txid}
       /\ spends' = IF c.spendMap = {}
                      THEN spends \ {c}
                      ELSE (spends \ {c}) \cup {[c EXCEPT !.stage = "mark"]}
       /\ lastProcess' = IF c.spendMap = {}
                           THEN Processed(c, "completeMany") ELSE NoProcess
  /\ UNCHANGED <<ingests, ingestCalls>>
  /\ IngestFrame

\* ingestWithSpendInfo: the second storage transaction, over spendMap
IngestWithSpendInfoMarks ==
  /\ \E c \in spends :
       /\ c.stage = "mark"
       /\ outputs' = MarkKnownSpent(outputs, c.txid, c.spendMap)
       /\ spends' = spends \ {c}
       /\ lastProcess' = Processed(c, "completeMany")
  /\ lastIngest' = NoIngest
  /\ UNCHANGED <<transactions, ingests, ingestCalls, ingested>>
  /\ IngestFrame

\* markOutputsSpent: one storage transaction over the items
MarkOutputsSpentRuns ==
  /\ \E c \in spends :
       /\ c.stage = "markOutputsSpent"
       /\ outputs' = MarkOutputsSpent(outputs, c.txid, c.spendMap)
       /\ spends' = spends \ {c}
       /\ lastProcess' = Processed(c, "completeMany")
  /\ lastIngest' = NoIngest
  /\ UNCHANGED <<transactions, ingests, ingestCalls, ingested>>
  /\ IngestFrame

\* loadTransaction, the parser or the running storage transaction throws:
\* that storage transaction is rolled back and processTxid goes to its catch
ProcessStorageThrows ==
  /\ \E c \in spends :
       /\ spends' = spends \ {c}
       /\ lastProcess' = Processed(c, "fail")
  /\ lastIngest' = NoIngest
  /\ UNCHANGED <<transactions, outputs, ingests, ingestCalls, ingested>>
  /\ IngestFrame

NextProcess ==
  \/ ProcessStorageCall
  \/ IngestWithSpendInfoIngests
  \/ IngestWithSpendInfoMarks
  \/ MarkOutputsSpentRuns
  \/ ProcessStorageThrows
  \/ IngestCall
  \/ IngestReturn
  \/ IngestThrows

SpecProcess == Init /\ [][NextProcess]_vars

(***************************************************************************)
(* The event emitter: on, off and emit.  A Set iterates in insertion       *)
(* order, so the callbacks of an event are kept as a sequence without      *)
(* repetitions.  A subscriber either returns or throws.                    *)
(***************************************************************************)
Callbacks == {"first", "thrower", "last"}

CallbackThrows(cb) == cb = "thrower"

Has(callbacks, cb) == \E k \in 1 .. Len(callbacks) : callbacks[k] = cb

\* Set.prototype.add
SetAdd(callbacks, cb) == IF Has(callbacks, cb) THEN callbacks ELSE Append(callbacks, cb)

\* Set.prototype.delete
SetDelete(callbacks, cb) == SelectSeq(callbacks, LAMBDA c : c # cb)

\* for (const cb of callbacks) cb(data): the callbacks invoked and whether
\* the loop was left by an exception
RECURSIVE Emit(_, _)
Emit(callbacks, invoked) ==
  IF callbacks = <<>>
    THEN [invoked |-> invoked, threw |-> FALSE]
    ELSE IF CallbackThrows(Head(callbacks))
           THEN [invoked |-> Append(invoked, Head(callbacks)), threw |-> TRUE]
           ELSE Emit(Tail(callbacks), Append(invoked, Head(callbacks)))

EmitFrame == UNCHANGED <<backend, qvars, wvars, cvars, gvars, svars, pvars, ivars>>

On ==
  /\ \E event \in EventNames, cb \in Callbacks :
       listeners' = [listeners EXCEPT ![event] = SetAdd(@, cb)]
  /\ emitted' = NoEmit
  /\ EmitFrame

Off ==
  /\ \E event \in EventNames, cb \in Callbacks :
       listeners' = [listeners EXCEPT ![event] = SetDelete(@, cb)]
  /\ emitted' = NoEmit
  /\ EmitFrame

\* this.emit(event, data)
EmitEvent ==
  /\ \E event \in EventNames :
       LET r == Emit(listeners[event], <<>>)
       IN  emitted' = [event |-> event, callbacks |-> listeners[event],
                       invoked |-> r.invoked, threw |-> r.threw]
  /\ UNCHANGED listeners
  /\ EmitFrame

NextEmit ==
  \/ On
  \/ Off
  \/ EmitEvent

SpecEmit == Init /\ [][NextEmit]_vars

(***************************************************************************)
(* The entry points of the wallet: sync() with its guards, the separate    *)
(* stream and processor controls (startStream, stopStream, startProcessor, *)
(* stopProcessor) and addOwner, next to the sync() call modelled above.    *)
(* The queue calls of startStream and startProcessor go through the same   *)
(* FIFO of issued queue-store transactions.  The claim() of the processor  *)
(* loop is taken in the schedule in which its IndexedDB transactions run   *)
(* back to back.                                                           *)
(***************************************************************************)
\* a call that ended at its guards: it threw or returned at once
Ended(fn, outcome) == [fn |-> fn, outcome |-> outcome, owners |-> owners]

ControlGhost(emit, op) ==
  /\ lastEmit' = emit
  /\ lastOp' = op
  /\ prevScore' = syncState.lastQueuedScore
  /\ UNCHANGED <<completeEmits, crashes, claimPre, claimEnqs>>

\* the state of the running sync() call, the wallet storage, the listeners
ControlFrame == UNCHANGED <<backend, pc, syncRunning, syncStopRequested, activeQueueSync,
                            streamDone, fromScore, sess, streams, cvars, svars, evars, ivars>>

\* sync(): throws without a queue; returns while a sync is running and
\* when there is no owner
SyncEnds ==
  /\ Quiet
  /\ ~syncQueue \/ syncRunning \/ owners = {}
  /\ lastCall' = Ended("sync", IF ~syncQueue THEN "throws" ELSE "returns")
  /\ ControlGhost("none", NoOp)
  /\ ControlFrame
  /\ UNCHANGED <<qvars, currentHeight, claimed, recovered, syncQueue, owners,
                 sseStreamActive, sseUnsubscribe, thisStreamDone, sseStreams,
                 processorActive, processorStopRequested, spc, sfrom, ppc, pbatch,
                 starts>>

\* addOwner(address)
AddOwner ==
  /\ Quiet
  /\ \E address \in Addresses \ owners : owners' = owners \cup {address}
  /\ lastCall' = NoCall
  /\ ControlGhost("none", NoOp)
  /\ ControlFrame
  /\ UNCHANGED <<qvars, currentHeight, claimed, recovered, syncQueue,
                 sseStreamActive, sseUnsubscribe, thisStreamDone, sseStreams,
                 processorActive, processorStopRequested, spc, sfrom, ppc, pbatch,
                 starts>>

\* startStream(): throws without a queue; returns while the stream is
\* active and when there is no owner
StartStreamEnds ==
  /\ Quiet
  /\ ~syncQueue \/ sseStreamActive \/ owners = {}
  /\ lastCall' = Ended("startStream", IF ~syncQueue THEN "throws" ELSE "returns")
  /\ ControlGhost("none", NoOp)
  /\ ControlFrame
  /\ UNCHANGED <<qvars, currentHeight, claimed, recovered, syncQueue, owners,
                 sseStreamActive, sseUnsubscribe, thisStreamDone, sseStreams,
                 processorActive, processorStopRequested, spc, sfrom, ppc, pbatch,
                 starts>>

\* startStream() up to `await this.syncQueue.getState()`
StartStreamCall ==
  /\ Quiet
  /\ syncQueue
  /\ ~sseStreamActive
  /\ owners # {}
  /\ spc = "idle"
  /\ starts < MaxStarts
  /\ starts' = starts + 1
  /\ spc' = "getState"
  /\ txq' = Append(txq, Tx("streamGetState", "-", now))
  /\ lastCall' = NoCall
  /\ ControlGhost("none", NoOp)
  /\ ControlFrame
  /\ UNCHANGED <<queue, syncState, now, setq, currentHeight, claimed, recovered,
                 syncQueue, owners, sseStreamActive, sseUnsubscribe, thisStreamDone,
                 sseStreams, processorActive, processorStopRequested, sfrom, ppc,
                 pbatch>>

\* getState() returns to startStream(): fromScore, then getHeight()
StreamGetStateReturn ==
  /\ HeadIs("streamGetState")
  /\ txq' = Tail(txq)
  /\ sfrom' = syncState.lastQueuedScore
  /\ spc' = "getHeight"
  /\ lastCall' = NoCall
  /\ ControlGhost("none", NoOp)
  /\ ControlFrame
  /\ UNCHANGED <<queue, syncState, now, setq, currentHeight, claimed, recovered,
                 syncQueue, owners, sseStreamActive, sseUnsubscribe, thisStreamDone,
                 sseStreams, processorActive, processorStopRequested, ppc, pbatch,
                 starts>>

\* getHeight() returns to startStream(): the flags, sync:start, the
\* subscription
StreamGetHeightReturn ==
  /\ Quiet
  /\ spc = "getHeight"
  /\ \E h \in Heights :
       /\ h >= currentHeight
       /\ currentHeight' = h
       /\ sseStreams' = sseStreams \cup {Stream(starts, h, sfrom)}
  /\ sseStreamActive' = TRUE
  /\ thisStreamDone' = FALSE
  /\ sseUnsubscribe' = starts
  /\ spc' = "idle"
  /\ lastCall' = NoCall
  /\ ControlGhost("start", NoOp)
  /\ ControlFrame
  /\ UNCHANGED <<qvars, claimed, recovered, syncQueue, owners, processorActive,
                 processorStopRequested, sfrom, ppc, pbatch, starts>>

\* onmessage of a startStream() subscription: handleSyncOutput up to
\* `await enqueue`
StreamDeliver ==
  /\ Quiet
  /\ now < MaxDeliver
  /\ \E st \in sseStreams, e \in Events :
       /\ CanDeliver(st, e)
       /\ sseStreams' = (sseStreams \ {st}) \cup
                          {[st EXCEPT !.sent = @ \cup {IdOf(e.outpoint, e.score)}]}
       /\ txq' = Append(txq, Tx("enqueue", [ev |-> e, height |-> st.height], now + 1))
  /\ now' = now + 1
  /\ lastCall' = NoCall
  /\ ControlGhost("none", NoOp)
  /\ ControlFrame
  /\ UNCHANGED <<queue, syncState, setq, currentHeight, claimed, recovered, syncQueue,
                 owners, sseStreamActive, sseUnsubscribe, thisStreamDone,
                 processorActive, processorStopRequested, spc, sfrom, ppc, pbatch,
                 starts>>

\* "done" event or onerror of a startStream() subscription: the callbacks
\* write this.streamDone and this.sseStreamActive; onError emits sync:error
StreamEnds ==
  /\ Quiet
  /\ \E st \in sseStreams, error \in BOOLEAN :
       /\ sseStreams' = sseStreams \ {st}
       /\ ControlGhost(IF error THEN "error" ELSE "none", NoOp)
  /\ thisStreamDone' = TRUE
  /\ sseStreamActive' = FALSE
  /\ lastCall' = NoCall
  /\ ControlFrame
  /\ UNCHANGED <<qvars, currentHeight, claimed, recovered, syncQueue, owners,
                 sseUnsubscribe, processorActive, processorStopRequested, spc, sfrom,
                 ppc, pbatch, starts>>

\* the host calls stopStream()
StopStreamCall ==
  /\ Quiet
  /\ sseUnsubscribe # NoSub
  /\ StopStream
  /\ lastCall' = NoCall
  /\ ControlGhost("none", NoOp)
  /\ ControlFrame
  /\ UNCHANGED <<qvars, currentHeight, claimed, recovered, syncQueue, owners,
                 thisStreamDone, processorActive, processorStopRequested, spc, sfrom,
                 ppc, pbatch, starts>>

\* startProcessor(): throws without a queue; returns while the processor is
\* active
StartProcessorEnds ==
  /\ Quiet
  /\ ~syncQueue \/ processorActive
  /\ lastCall' = Ended("startProcessor", IF ~syncQueue THEN "throws" ELSE "returns")
  /\ ControlGhost("none", NoOp)
  /\ ControlFrame
  /\ UNCHANGED <<qvars, currentHeight, claimed, recovered, syncQueue, owners,
                 sseStreamActive, sseUnsubscribe, thisStreamDone, sseStreams,
                 processorActive, processorStopRequested, spc, sfrom, ppc, pbatch,
                 starts>>

\* startProcessor() up to `await this.syncQueue.resetProcessing()`
StartProcessorCall ==
  /\ Quiet
  /\ syncQueue
  /\ ~processorActive
  /\ starts < MaxStarts
  /\ starts' = starts + 1
  /\ processorActive' = TRUE
  /\ processorStopRequested' = FALSE
  /\ ppc' = "reset"
  /\ txq' = Append(txq, Tx("processorReset", "-", now))
  /\ lastCall' = NoCall
  /\ ControlGhost("none", NoOp)
  /\ ControlFrame
  /\ UNCHANGED <<queue, syncState, now, setq, currentHeight, claimed, recovered,
                 syncQueue, owners, sseStreamActive, sseUnsubscribe, thisStreamDone,
                 sseStreams, spc, sfrom, pbatch>>

\* while (!this.processorStopRequested) { ... claim(this.syncBatchSize);
\* after the loop: this.processorActive = false
ProcessorEnterLoop(q) ==
  IF processorStopRequested
    THEN /\ ppc' = "idle"
         /\ processorActive' = FALSE
         /\ txq' = q
    ELSE /\ ppc' = "claim"
         /\ txq' = Append(q, Tx("processorClaim", "-", now))
         /\ UNCHANGED processorActive

\* resetProcessing() commits; startProcessor() goes on to its loop
ProcessorExecReset ==
  /\ HeadIs("processorReset")
  /\ queue' = ResetProcessing(queue, Head(txq).t)
  /\ ProcessorEnterLoop(Tail(txq))
  /\ recovered' = TRUE
  /\ lastCall' = NoCall
  /\ ControlGhost("none", [Op("reset", NoEv, 0, queue, NoItems, <<>>)
                             EXCEPT !.n = ResetProcessingCount(queue)])
  /\ ControlFrame
  /\ UNCHANGED <<syncState, now, setq, currentHeight, claimed, syncQueue, owners,
                 sseStreamActive, sseUnsubscribe, thisStreamDone, sseStreams,
                 processorStopRequested, spc, sfrom, pbatch, starts>>

\* claim() of the processor loop commits and returns: the 100 ms sleep for
\* an empty result, else Promise.all over the groups
ProcessorExecClaim ==
  /\ HeadIs("processorClaim")
  /\ \E items \in ClaimResults(queue, BatchSize, Head(txq).t) :
       /\ lastOp' = Op("claim", NoEv, 0, queue, items, <<>>)
       /\ claimed' = claimed \cup DOMAIN items
       /\ IF DOMAIN items = {}
            THEN /\ ppc' = "sleep"
                 /\ UNCHANGED <<queue, pbatch>>
            ELSE /\ queue' = ClaimMarks(queue, DOMAIN items, Head(txq).t)
                 /\ pbatch' = NewBatch(items)
                 /\ ppc' = "batch"
  /\ txq' = Tail(txq)
  /\ lastEmit' = "none"
  /\ prevScore' = syncState.lastQueuedScore
  /\ lastCall' = NoCall
  /\ ControlFrame
  /\ UNCHANGED <<syncState, now, setq, currentHeight, completeEmits, crashes, claimPre,
                 claimEnqs, recovered, syncQueue, owners, sseStreamActive,
                 sseUnsubscribe, thisStreamDone, sseStreams, processorActive,
                 processorStopRequested, spc, sfrom, starts>>

\* setTimeout(r, 100) of the processor loop fires: continue
ProcessorTimer ==
  /\ Quiet
  /\ ppc = "sleep"
  /\ ProcessorEnterLoop(txq)
  /\ lastCall' = NoCall
  /\ ControlGhost("none", NoOp)
  /\ ControlFrame
  /\ UNCHANGED <<queue, syncState, now, setq, currentHeight, claimed, recovered,
                 syncQueue, owners, sseStreamActive, sseUnsubscribe, thisStreamDone,
                 sseStreams, processorStopRequested, spc, sfrom, pbatch, starts>>

\* processTxid of a group of the processor's batch: completeMany is called,
\* or it throws: sync:error, then fail() item by item
ProcessorProcessTxid ==
  /\ Quiet
  /\ ppc = "batch"
  /\ \E txid \in DOMAIN pbatch, ok \in BOOLEAN :
       /\ pbatch[txid].phase = "work"
       /\ IF ok
            THEN /\ pbatch' = [pbatch EXCEPT ![txid].phase = "complete"]
                 /\ txq' = Append(txq, Tx("processorComplete", txid, now))
                 /\ lastEmit' = "none"
            ELSE /\ pbatch' = [pbatch EXCEPT ![txid].phase = "fail"]
                 /\ txq' = Append(txq, Tx("processorFail",
                             [txid |-> txid, id |-> FirstId(DOMAIN pbatch[txid].items)],
                             now))
                 /\ lastEmit' = "error"
  /\ lastOp' = NoOp
  /\ prevScore' = syncState.lastQueuedScore
  /\ lastCall' = NoCall
  /\ ControlFrame
  /\ UNCHANGED <<queue, syncState, now, setq, currentHeight, completeEmits, crashes,
                 claimPre, claimEnqs, claimed, recovered, syncQueue, owners,
                 sseStreamActive, sseUnsubscribe, thisStreamDone, sseStreams,
                 processorActive, processorStopRequested, spc, sfrom, ppc, starts>>

\* Promise.all of the processor loop resolves with the last group:
\* getStats() is called
ProcessorAfterGroup(b, q) ==
  /\ pbatch' = b
  /\ IF DOMAIN b = {}
       THEN /\ txq' = Append(q, Tx("processorStats", "-", now))
            /\ ppc' = "stats"
       ELSE /\ txq' = q
            /\ ppc' = ppc

\* completeMany(itemIds) of the processor loop commits
ProcessorExecComplete ==
  /\ HeadIs("processorComplete")
  /\ LET txid == Head(txq).arg
         ids == DOMAIN pbatch[txid].items
     IN  /\ queue' = CompleteMany(queue, ids, Head(txq).t)
         /\ ProcessorAfterGroup(Without(pbatch, txid), Tail(txq))
         /\ claimed' = claimed \ ids
         /\ ControlGhost("none", Op("complete", NoEv, 0, queue, pbatch[txid].items, <<>>))
  /\ lastCall' = NoCall
  /\ ControlFrame
  /\ UNCHANGED <<syncState, now, setq, currentHeight, recovered, syncQueue, owners,
                 sseStreamActive, sseUnsubscribe, thisStreamDone, sseStreams,
                 processorActive, processorStopRequested, spc, sfrom, starts>>

\* fail(item.id, String(error)) of the processor loop commits
ProcessorExecFail ==
  /\ HeadIs("processorFail")
  /\ LET txid == Head(txq).arg.txid
         id == Head(txq).arg.id
         failed == pbatch[txid].failed \cup {id}
         left == DOMAIN pbatch[txid].items \ failed
     IN  /\ queue' = Fail(queue, id, "error", Head(txq).t)
         /\ IF left # {}
              THEN /\ pbatch' = [pbatch EXCEPT ![txid].failed = failed]
                   /\ txq' = Append(Tail(txq),
                               Tx("processorFail",
                                  [txid |-> txid, id |-> FirstId(left)], now))
                   /\ ppc' = ppc
              ELSE ProcessorAfterGroup(Without(pbatch, txid), Tail(txq))
         /\ claimed' = claimed \ {id}
         /\ ControlGhost("none", Op("fail", NoEv, 0, queue, [x \in {id} |-> queue[id]], <<>>))
  /\ lastCall' = NoCall
  /\ ControlFrame
  /\ UNCHANGED <<syncState, now, setq, currentHeight, recovered, syncQueue, owners,
                 sseStreamActive, sseUnsubscribe, thisStreamDone, sseStreams,
                 processorActive, processorStopRequested, spc, sfrom, starts>>

\* getStats() returns to the processor loop: sync:progress, the loop condition
ProcessorExecStats ==
  /\ HeadIs("processorStats")
  /\ ProcessorEnterLoop(Tail(txq))
  /\ lastCall' = NoCall
  /\ ControlGhost("progress", NoOp)
  /\ ControlFrame
  /\ UNCHANGED <<queue, syncState, now, setq, currentHeight, claimed, recovered,
                 syncQueue, owners, sseStreamActive, sseUnsubscribe, thisStreamDone,
                 sseStreams, processorStopRequested, spc, sfrom, pbatch, starts>>

\* the host calls stopProcessor()
StopProcessorCall ==
  /\ Quiet
  /\ processorActive
  /\ ~processorStopRequested
  /\ StopProcessor
  /\ lastCall' = NoCall
  /\ ControlGhost("none", NoOp)
  /\ ControlFrame
  /\ UNCHANGED <<qvars, currentHeight, claimed, recovered, syncQueue, owners,
                 sseStreamActive, sseUnsubscribe, thisStreamDone, sseStreams,
                 processorActive, spc, sfrom, ppc, pbatch, starts>>

\* The entry points of a wallet whose streams deliver no event
NextEntry ==
  \/ SyncEnds
  \/ AddOwner
  \/ StartStreamEnds
  \/ StartProcessorEnds
  \/ SyncCall
  \/ ExecReset
  \/ GetStateReturn
  \/ GetHeightReturn
  \/ ExecSeedSqlite
  \/ ExecSeedIdb
  \/ Timer
  \/ StreamDone
  \/ StopSync
  \/ StartStreamCall
  \/ StreamGetStateReturn
  \/ StreamGetHeightReturn
  \/ StreamEnds
  \/ StopStreamCall
  \/ StartProcessorCall
  \/ ProcessorExecReset
  \/ ProcessorExecClaim
  \/ ProcessorTimer
  \/ StopProcessorCall

SpecEntry == InitAny /\ [][NextEntry]_vars

\* The separate controls: startStream() fills the queue, startProcessor()
\* works on it, the process may crash
NextStream ==
  \/ StartStreamCall
  \/ StreamGetStateReturn
  \/ StreamGetHeightReturn
  \/ StreamDeliver
  \/ StreamEnds
  \/ StopStreamCall
  \/ ExecEnqueue
  \/ ExecSetState
  \/ StartProcessorCall
  \/ ProcessorExecReset
  \/ ProcessorExecClaim
  \/ ProcessorTimer
  \/ ProcessorProcessTxid
  \/ ProcessorExecComplete
  \/ ProcessorExecFail
  \/ ProcessorExecStats
  \/ StopProcessorCall
  \/ Crash

SpecStream == Init /\ [][NextStream]_vars

\* sync(), startProcessor() and stopSync() of a wallet constructed over a
\* queue that holds a backlog; the stream of sync() delivers nothing new
NextProcessor ==
  \/ SyncCall
  \/ ExecReset
  \/ GetStateReturn
  \/ GetHeightReturn
  \/ StreamDone
  \/ ExecSeedSqlite
  \/ ExecSeedIdb
  \/ ExecGather
  \/ ExecMark
  \/ ProcessTxid
  \/ ExecComplete
  \/ ExecFail
  \/ ExecStats
  \/ Timer
  \/ StopSync
  \/ StartProcessorCall
  \/ ProcessorExecReset
  \/ ProcessorExecClaim
  \/ ProcessorTimer
  \/ ProcessorProcessTxid
  \/ ProcessorExecComplete
  \/ ProcessorExecFail
  \/ ProcessorExecStats
  \/ StopProcessorCall

SpecProcessor == InitBacklog /\ [][NextProcessor]_vars

(***************************************************************************)
(* Properties of claim().  lastOp is the queue call that returned in the   *)
(* last step: its argument, the queue when it was called (pre), what it    *)
(* returned (ret) and the enqueues that committed while it ran (enqs).     *)
(***************************************************************************)
ClaimReturned == lastOp.op = "claim" /\ DOMAIN lastOp.ret # {}

PendingOfTxid(q, txid) ==
  { id \in Ids : q[id].status = "pending" /\ TxidOf(q[id].outpoint) = txid }

\* C1: when claim(n) has returned, the queue holds no pending row of any
\* txid that is a key of the returned map (every returned group is complete).
C1_ReturnedGroupsComplete ==
  ClaimReturned =>
    \A txid \in ItemTxids(lastOp.ret) : PendingOfTxid(queue, txid) = {}

PreAttempts(id) == IF lastOp.pre[id] = NoRow THEN 0 ELSE lastOp.pre[id].attempts

\* C2: every item claim(n) returned is stored with status processing and an
\* attempts counter exactly one greater than it was when claim was called.
C2_ProcessingAttemptsPlusOne ==
  ClaimReturned =>
    \A id \in DOMAIN lastOp.ret :
      /\ queue[id].status = "processing"
      /\ queue[id].attempts = PreAttempts(id) + 1

\* A claim returned a row for the second time.
C2_Witness ==
  /\ ClaimReturned
  /\ \E id \in DOMAIN lastOp.ret : PreAttempts(id) = 1 /\ queue[id].attempts = 2

\* The enqueues of enqs whose index is in S, applied in order from index i on.
RECURSIVE ApplyEnqs(_, _, _, _)
ApplyEnqs(q, enqs, S, i) ==
  IF i > Len(enqs)
    THEN q
    ELSE ApplyEnqs(IF i \in S THEN Enqueue(q, enqs[i].arg.ev, enqs[i].t) ELSE q,
                   enqs, S, i + 1)

\* claim() executed at one instant on queue q with the given seeds returns
\* ret and leaves queue post.
AtomicClaimGives(q, seeds, t, ret, post) ==
  LET items == SqliteClaimItems(q, seeds, t)
  IN  /\ items = ret
      /\ SqliteMarkProcessing(q, DOMAIN items, t) = post

\* C3: a claim that overlaps enqueue calls of the stream has the effect of
\* the whole claim executed at one instant, before or after each enqueue:
\* some of the enqueues, then the claim, then the other enqueues give what
\* the claim returned and the queue it left.
C3_ClaimSerializable ==
  ClaimReturned =>
    \E S \in SUBSET (1 .. Len(lastOp.enqs)) :
      LET all == 1 .. Len(lastOp.enqs)
          q1 == ApplyEnqs(lastOp.pre, lastOp.enqs, S, 1)
      IN  \E seeds \in SqliteSeedChoices(q1, BatchSize) :
            \E q2 \in {SqliteMarkProcessing(q1, DOMAIN lastOp.ret, claimNow)} :
              /\ AtomicClaimGives(q1, seeds, claimNow, lastOp.ret, q2)
              /\ ApplyEnqs(q2, lastOp.enqs, all \ S, 1) = queue

(***************************************************************************)
(* Properties of enqueue().                                                *)
(***************************************************************************)
EnqueuedId == IdOf(lastOp.ev.outpoint, lastOp.ev.score)

\* C4: enqueue of an item whose id has a done row is a no-op: the row stays
\* done with every field unchanged (rows are keyed by id, so there is no
\* second row).
C4_EnqueueDoneNoOp ==
  (lastOp.op = "enqueue" /\ lastOp.pre[EnqueuedId].status = "done") =>
    queue = lastOp.pre

C4_Witness ==
  /\ lastOp.op = "enqueue"
  /\ lastOp.pre[EnqueuedId].status = "done"
  /\ lastOp.pre[EnqueuedId].spendTxid # lastOp.ev.spendTxid

\* C5: enqueue of an item whose id has a row that is not done leaves one row
\* for the id, pending, with attempts and createdAt as before the call.
C5_EnqueueKeepsAttempts ==
  (lastOp.op = "enqueue" /\ lastOp.pre[EnqueuedId].status
                               \in {"pending", "processing", "failed"}) =>
    /\ queue[EnqueuedId].status = "pending"
    /\ queue[EnqueuedId].attempts = lastOp.pre[EnqueuedId].attempts
    /\ queue[EnqueuedId].createdAt = lastOp.pre[EnqueuedId].createdAt

C5_Witness ==
  /\ lastOp.op = "enqueue"
  /\ lastOp.pre[EnqueuedId].status = "failed"
  /\ lastOp.pre[EnqueuedId].attempts = 1
  /\ lastOp.pre[EnqueuedId].createdAt < now

(***************************************************************************)
(* Properties of the persisted sync state.                                 *)
(***************************************************************************)
\* The scores of the enqueued events that are re-org safe under the last
\* chain tip snapshot.
SafeDelivered ==
  { queue[id].score :
      id \in { i \in RowsOf(queue) :
                 Floor(queue[i].score) <= currentHeight - REORG_SAFE_DEPTH } }

UnsafeEnqueued ==
  /\ lastOp.op = "enqueue"
  /\ Floor(lastOp.ev.score) > lastOp.h - REORG_SAFE_DEPTH

\* C7: lastQueuedScore is never greater than the largest delivered score s
\* with floor(s) <= H - 6; an event with floor(score) > H - 6 is enqueued
\* but leaves lastQueuedScore unchanged: no write of such a score is ever
\* issued, and the step that enqueues it leaves the stored score as it was.
C7_ReorgSafeScore ==
  /\ syncState.lastQueuedScore <= MaxOf(SafeDelivered \cup {0})
  /\ \A i \in 1 .. Len(setq) :
       Floor(setq[i].score) <= setq[i].height - REORG_SAFE_DEPTH
  /\ UnsafeEnqueued =>
       /\ queue[EnqueuedId] # NoRow
       /\ syncState.lastQueuedScore = prevScore

\* An unsafe event was enqueued after a safe one had set lastQueuedScore.
C7_Witness ==
  /\ UnsafeEnqueued
  /\ queue[EnqueuedId].status = "pending"
  /\ syncState.lastQueuedScore > 0
  /\ syncState.lastQueuedScore < lastOp.ev.score

\* C8: lastQueuedScore never decreases, within one sync and across sync
\* sessions: no step leaves it smaller than it was.
C8_ScoreMonotone == syncState.lastQueuedScore >= prevScore

(***************************************************************************)
(* Properties of sync().                                                   *)
(***************************************************************************)
NoneOutstanding ==
  WithStatus(queue, "pending") = {} /\ WithStatus(queue, "processing") = {}

\* C9: at the moment sync:complete is emitted the stream has signalled done
\* and no queue row is pending or processing.
C9_CompleteOnlyWhenDrained ==
  lastEmit = "complete" => (streamDone /\ NoneOutstanding)

\* sync:complete after at least one item went through the queue
C9_Witness ==
  /\ lastEmit = "complete"
  /\ WithStatus(queue, "done") # {}
  /\ WithStatus(queue, "failed") # {}

\* A run in which stopSync is never called, the process does not crash and
\* every call returns.
NextLive ==
  \/ SyncCall
  \/ GetStateReturn
  \/ GetHeightReturn
  \/ Deliver
  \/ StreamDone
  \/ StreamError
  \/ ExecTx
  \/ ExecSetState
  \/ ProcessTxid
  \/ Timer

\* Every issued call returns, the timer fires and the stream ends.  The
\* event loop runs the stream's task between two tasks of the processing
\* loop, so the end of the stream is taken if it is enabled again and again.
Fairness ==
  /\ WF_vars(GetStateReturn)
  /\ WF_vars(GetHeightReturn)
  /\ WF_vars(ExecTx)
  /\ WF_vars(ExecSetState)
  /\ WF_vars(ProcessTxid)
  /\ WF_vars(Timer)
  /\ SF_vars(StreamDone \/ StreamError)

SpecLive == Init /\ [][NextLive]_vars /\ Fairness

Returned == pc = "idle" /\ lastEmit = "complete"

FailedId == CHOOSE id \in DOMAIN lastOp.ret : TRUE

\* fail(id) marks its row failed and touches no other row
FailMarksItsItem ==
  lastOp.op = "fail" =>
    /\ queue[FailedId].status = "failed"
    /\ \A j \in Ids \ {FailedId} : queue[j] = lastOp.pre[j]

\* every fail call in flight is for a not yet failed item of a group that threw
FailOnlyThrownGroups ==
  \A i \in 1 .. Len(txq) :
    txq[i].kind = "fail" =>
      /\ txq[i].arg.txid \in DOMAIN batch
      /\ batch[txq[i].arg.txid].phase = "fail"
      /\ txq[i].arg.id \in DOMAIN batch[txq[i].arg.txid].items
                             \ batch[txq[i].arg.txid].failed

\* after sync:progress the loop claims again unless stopSync was called
LoopGoesOn == lastEmit = "progress" => (pc = "seed" \/ syncStopRequested)

\* the step in which processTxid of the group throws
Threw(txid) ==
  /\ txid \in DOMAIN batch
  /\ batch[txid].phase = "work"
  /\ crashes' = crashes
  /\ txid \notin DOMAIN batch' \/ batch'[txid].phase = "fail"

\* sync:error is emitted, the group starts failing its items, no other group
\* and no row changes, the loop is where it was
ThrowHandled(txid) ==
  /\ lastEmit' = "error"
  /\ txid \in DOMAIN batch'
  /\ batch'[txid].phase = "fail"
  /\ \A u \in DOMAIN batch \ {txid} : u \in DOMAIN batch' /\ batch'[u] = batch[u]
  /\ queue' = queue
  /\ pc' = pc

\* a throwing group is finished only when fail has marked every item of it
GroupFailedWhole(txid) ==
  (/\ txid \in DOMAIN batch
   /\ batch[txid].phase = "fail"
   /\ txid \notin DOMAIN batch'
   /\ crashes' = crashes) =>
    /\ lastOp'.op = "fail"
    /\ batch[txid].failed \cup DOMAIN lastOp'.ret = DOMAIN batch[txid].items

\* C11: when processTxid of one txid group throws, sync:error is emitted and
\* fail is called on exactly the items of that group, each call marking its
\* row failed and no other; the other groups of the batch are unaffected and
\* the loop goes on to the next claim instead of terminating.
C11_GroupFailureContained ==
  /\ [](FailMarksItsItem /\ FailOnlyThrownGroups /\ LoopGoesOn)
  /\ [][\A txid \in Txids :
          /\ Threw(txid) => ThrowHandled(txid)
          /\ GroupFailedWhole(txid)]_vars

(***************************************************************************)
(* Properties of stopSync.                                                 *)
(***************************************************************************)
\* the items the running batch got from claim
BatchIds == UNION { DOMAIN batch[txid].items : txid \in DOMAIN batch }

\* C12: once stopSync has returned (syncStopRequested is set until the next
\* sync() call), every item that had been claimed is done or failed and no
\* queue row is left in processing.
C12_StopSyncSettled ==
  syncStopRequested =>
    /\ \A id \in BatchIds : queue[id].status \in {"done", "failed"}
    /\ WithStatus(queue, "processing") = {}

(***************************************************************************)
(* Properties of the row status.                                           *)
(***************************************************************************)
\* C13: in every reachable state a row has status processing only if a claim
\* call returned it and neither complete/completeMany nor fail has taken
\* effect on the row since.
C13_ProcessingImpliesClaimed ==
  \A id \in Ids : queue[id].status = "processing" => id \in claimed

\* a claimed row is processing while an earlier claimed row has been completed
C13_Witness ==
  /\ \E id \in claimed : queue[id].status = "processing"
  /\ \E id \in Ids \ claimed : queue[id].status = "done"

(***************************************************************************)
(* Frame of the queue operations.  lastOp' is the call made by the step.   *)
(***************************************************************************)
RowChanged(id) == queue[id] # NoRow /\ queue'[id] # NoRow /\ queue'[id] # queue[id]

RowRemoved(id) == queue[id] # NoRow /\ queue'[id] = NoRow

Mutators == {"claim", "complete", "completeMany", "fail", "reset"}

\* enqueue of the row's own id while the row is not done
Upserts(id) ==
  /\ lastOp'.op = "enqueue"
  /\ IdOf(lastOp'.ev.outpoint, lastOp'.ev.score) = id
  /\ queue[id].status # "done"

\* C14 as stated: an existing row is mutated only by claim,
\* complete/completeMany, fail and resetProcessing and removed only by
\* clear; no other operation changes or deletes a row that exists.
C14_OnlyMutatorsChangeRows ==
  [][\A id \in Ids :
       /\ RowChanged(id) => lastOp'.op \in Mutators
       /\ RowRemoved(id) => lastOp'.op = "clear"]_vars

\* C14: an existing row is mutated only by claim, complete/completeMany,
\* fail, resetProcessing and by enqueue of its own id while it is not done,
\* and it is removed only by clear; no other operation (getByTxid,
\* getByStatus, getStats, getState, setState, enqueue of another id or of a
\* done row) changes or deletes it.
C14_FrameWithUpsert ==
  [][\A id \in Ids :
       /\ RowChanged(id) => (lastOp'.op \in Mutators \/ Upserts(id))
       /\ RowRemoved(id) => lastOp'.op = "clear"]_vars

\* enqueue changed a row that existed and left the other rows alone
C14_Witness ==
  /\ lastOp.op = "enqueue"
  /\ lastOp.pre[EnqueuedId].status = "processing"
  /\ queue[EnqueuedId].status = "pending"
  /\ \E id \in RowsOf(queue) \ {EnqueuedId} : queue[id] = lastOp.pre[id]

(***************************************************************************)
(* Failed rows.                                                            *)
(***************************************************************************)
MinOf2(a, b) == IF a < b THEN a ELSE b

\* the step returns from claim and hands out a row that was failed
ClaimReturnsFailed ==
  /\ lastOp'.op = "claim"
  /\ \E id \in DOMAIN lastOp'.ret : queue[id].status = "failed"

\* the step takes the row out of status failed
LeavesFailed(id) == queue[id].status = "failed" /\ queue'[id].status # "failed"

\* ... by an enqueue of the same id, which makes it pending
Redelivered(id) ==
  /\ lastOp'.op = "enqueue"
  /\ IdOf(lastOp'.ev.outpoint, lastOp'.ev.score) = id
  /\ queue'[id].status = "pending"

\* a claim hands out at least as many rows as were pending when it was
\* called, up to the batch size, whatever rows are failed
ClaimNotBlocked ==
  lastOp.op = "claim" =>
    Cardinality(DOMAIN lastOp.ret) >=
      MinOf2(BatchSize, Cardinality(WithStatus(lastOp.pre, "pending")))

CompletedId == CHOOSE id \in DOMAIN lastOp'.ret : TRUE

\* C16: complete(id) on a row returned by claim moves it from processing to
\* done, and complete is idempotent: complete(id) on a row that is done
\* leaves it done, with no field but updatedAt changed; no other row changes.
C16_CompleteIdempotent ==
  [][lastOp'.op = "complete" =>
       /\ (CompletedId \in claimed /\ queue[CompletedId].status = "processing")
            => queue'[CompletedId].status = "done"
       /\ queue[CompletedId].status = "done"
            => queue'[CompletedId] = [queue[CompletedId] EXCEPT !.updatedAt = now']
       /\ \A id \in Ids \ {CompletedId} : queue'[id] = queue[id]]_vars

\* complete was called a second time on a row that a claim had returned
C16_Witness ==
  /\ lastOp.op = "complete"
  /\ \E id \in DOMAIN lastOp.ret :
       /\ lastOp.pre[id].status = "done"
       /\ lastOp.pre[id].attempts = 1
       /\ lastOp.pre[id].updatedAt < now
       /\ queue[id].status = "done"

(***************************************************************************)
(* resetProcessing.                                                        *)
(***************************************************************************)
WasProcessing == WithStatus(lastOp.pre, "processing")

\* C17: after resetProcessing returns no row has status processing: every
\* row that was processing is pending (with updatedAt bumped and nothing
\* else changed), every other row is unchanged, and the returned number is
\* the count of rows that were processing.
C17_ResetProcessing ==
  lastOp.op = "reset" =>
    /\ WithStatus(queue, "processing") = {}
    /\ \A id \in WasProcessing :
         /\ queue[id].status = "pending"
         /\ [queue[id] EXCEPT !.updatedAt = 0] =
              [lastOp.pre[id] EXCEPT !.status = "pending", !.updatedAt = 0]
    /\ \A id \in Ids \ WasProcessing : queue[id] = lastOp.pre[id]
    /\ lastOp.n = Cardinality(WasProcessing)

\* sync() after a crash: resetProcessing found two processing rows
C17_Witness ==
  /\ lastOp.op = "reset"
  /\ lastOp.n = 2
  /\ Cardinality(WithStatus(queue, "pending")) = 2

(***************************************************************************)
(* Properties of ingestTransaction.                                        *)
(***************************************************************************)
\* C18: a second ingestTransaction call with the same transaction leaves the
\* wallet storage (transaction rows with their labels, output rows with
\* spendable, spentBy and tags) exactly as it was and returns
\* internalizedCount = 0.
C18_IngestIdempotent ==
  lastIngest.again =>
    /\ transactions = lastIngest.transactions
    /\ outputs = lastIngest.outputs
    /\ lastIngest.count = 0

\* B was ingested again after A, whose output it spends, had been ingested
\* later than B's first call
C18_Witness ==
  /\ lastIngest.again
  /\ lastIngest.txid = "B"
  /\ \E i \in FindOutputs(outputs, "A", 0) : outputs[i].spendable
  /\ FindOutputs(outputs, "B", 0) # {}

\* C19: after any sequence and interleaving of ingestTransaction calls the
\* wallet storage holds at most one transaction row per txid.
C19_OneTransactionRow ==
  \A txid \in WalletTxids : Cardinality(FindTransactions(transactions, txid)) <= 1

\* A was stored as a source transaction of B and then ingested itself
C19_Witness ==
  /\ lastIngest.txid = "A"
  /\ \E i \in FindTransactions(transactions, "A") :
       transactions[i].description = "source transaction"
  /\ FindOutputs(outputs, "A", 0) # {}

\* C20: after any sequence and interleaving of ingestTransaction calls the
\* wallet storage holds at most one output row per (txid, vout).
C20_OneOutputRow ==
  \A txid \in WalletTxids, vout \in {0, 1} :
    Cardinality(FindOutputs(outputs, txid, vout)) <= 1

\* A was ingested twice and both of its output rows are stored
C20_Witness ==
  /\ lastIngest.again
  /\ ingestCalls = 2
  /\ ingests = {}
  /\ Len(outputs) = 2

(***************************************************************************)
(* Properties of the storage work of processTxid.                          *)
(***************************************************************************)
\* the output rows that are stored and already marked spent
SpentRows == { i \in 1 .. Len(outputs) : ~outputs[i].spendable }

\* C21: an output row is patched to spendable = false at most once: once a
\* row is marked spent, no later step writes its spendable or spentBy
\* field again.
C21_SpentPatchedOnce ==
  [][\A i \in SpentRows :
       /\ outputs'[i].spendable = outputs[i].spendable
       /\ outputs'[i].spentBy = outputs[i].spentBy]_vars

\* the spend flips of spendMap that the storage does not show yet
FlipsMissing(c) ==
  { vout \in c.spendMap :
      \E i \in FindOutputs(outputs, c.txid, vout) : outputs[i].spendable }

\* C22: everything the processing of one transaction changes in the wallet
\* storage commits in one storage transaction: no state shows the rows of
\* a transaction that is being processed without the spend flips of the
\* same processing.
C22_OneStorageTransaction ==
  \A c \in spends : c.stage = "mark" => FlipsMissing(c) = {}

(***************************************************************************)
(* Properties of the event emitter.                                        *)
(***************************************************************************)
\* C23: an exception of a subscriber is caught by the emitter: emit()
\* returns to the code that emitted the event, and every subscriber of the
\* event has been invoked.
C23_EmitterCatches ==
  /\ ~emitted.threw
  /\ emitted.invoked = emitted.callbacks

(***************************************************************************)
(* Properties of the entry points.                                         *)
(***************************************************************************)
\* C24: a missing owner is a fatal configuration error raised at call
\* time: sync() and startStream() called with an empty owner set throw,
\* as they do without a queue, and do not return normally.
C24_NoOwnersFails ==
  (lastCall.fn \in {"sync", "startStream"} /\ lastCall.owners = {})
    => lastCall.outcome = "throws"

(***************************************************************************)
(* The two queue backends side by side.  The operators of IndexedDbSync-   *)
(* Queue that the sections above model once, from SqliteSyncQueue, are     *)
(* written here from the IndexedDB source.  Outpoints are 64 lowercase hex *)
(* characters, `_` and a decimal index: on them LIKE '<txid>%' and         *)
(* startsWith(txid) select the same rows.                                  *)
(***************************************************************************)
\* completeMany: per id store.get, if (item) { status, updatedAt; put }
IdbCompleteMany(q, ids, t) ==
  [id \in Ids |->
     IF id \in ids
       THEN LET item == q[id]
            IN  IF item # NoRow
                  THEN [item EXCEPT !.status = "done", !.updatedAt = t]
                  ELSE NoRow
       ELSE q[id]]

\* fail: store.get, if (item) { status, lastError, updatedAt; put }
IdbFail_KeepError(q, id, err, t) ==
  LET item == q[id]
  IN  IF item # NoRow
        THEN [q EXCEPT ![id] = [item EXCEPT !.status = "failed", !.updatedAt = t]]
        ELSE q

IdbFail(q, id, err, t) ==
  LET item == q[id]
  IN  IF item # NoRow
        THEN [q EXCEPT ![id] = [item EXCEPT !.status = "failed",
                                            !.lastError = err, !.updatedAt = t]]
        ELSE q

\* resetProcessing: cursor over the status index at "processing"
IdbProcessingCursor(q) ==
  { id \in RowsOf(q) : q[id].status = "processing" }

IdbResetProcessing(q, t) ==
  [id \in Ids |->
     IF id \in IdbProcessingCursor(q)
       THEN [q[id] EXCEPT !.status = "pending", !.updatedAt = t]
       ELSE q[id]]

\* count++ per cursor step
IdbResetProcessingCount(q) == Cardinality(IdbProcessingCursor(q))

\* getStats: a cursor over the whole store fills one Set of txids per status
IdbTxidsByStatus(q) ==
  [st \in Statuses |->
     { TxidOf(q[id].outpoint) : id \in { j \in RowsOf(q) : q[j].status = st } }]

IdbGetStats(q) ==
  [st \in Statuses |-> Cardinality(IdbTxidsByStatus(q)[st])]

\* getByTxid
SqliteGetByTxid(q, txid) ==
  Stored(q, { id \in RowsOf(q) : SqliteLike(q[id].outpoint, txid) })

IdbGetByTxid(q, txid) ==
  Stored(q, { id \in RowsOf(q) : IdbStartsWith(q[id].outpoint, txid) })

\* getByStatus(status, limit): SQLite returns any `limit` rows of the status
\* (LIMIT without ORDER BY), IndexedDB the first `limit` of the status index
SqliteGetByStatusChoices(q, st, limit) ==
  LET rows == WithStatus(q, st)
      n == IF Cardinality(rows) < limit THEN Cardinality(rows) ELSE limit
  IN  { Stored(q, S) : S \in { T \in SUBSET rows : Cardinality(T) = n } }

IdbGetByStatus(q, st, limit) ==
  LET rows == WithStatus(q, st)
  IN  Stored(q, { id \in rows :
                    Cardinality({ j \in rows : IdKey(j) < IdKey(id) }) < limit })

\* the items an IndexedDB claim returns: the objects gathered by
\* getPendingByTxid, as markProcessing has mutated and written them
IdbClaimItems(q, seeds, t) ==
  LET ids == UNION { IdbPendingByTxid(q, txid) : txid \in SeedTxids(q, seeds) }
      marked == IdbMarkProcessing(q, Stored(q, ids), t)
  IN  [id \in ids |-> marked[id]]

\* sync state.  { ...current, ...state }
MergeState(current, state) ==
  [k \in DOMAIN current |-> IF k \in DOMAIN state THEN state[k] ELSE current[k]]

\* JSON.stringify: the members of the object; lastSyncedAt is left out while
\* it is not set
JsonStringify(st) ==
  { <<k, st[k]>> : k \in { j \in DOMAIN st : j = "lastQueuedScore" \/ st[j] # 0 } }

\* JSON.parse, read as a SyncState
JsonParse(text) ==
  [k \in {"lastQueuedScore", "lastSyncedAt"} |->
     IF \E m \in text : m[1] = k
       THEN (CHOOSE m \in text : m[1] = k)[2]
       ELSE 0]

SqliteSetState(current, state) ==
  JsonParse(JsonStringify(MergeState(JsonParse(JsonStringify(current)), state)))

IdbSetState(current, state) == MergeState(current, state)

\* the partial states a caller passes to setState
StatePatches(t) ==
  { [lastQueuedScore |-> 40], [lastSyncedAt |-> t],
    [lastQueuedScore |-> 10, lastSyncedAt |-> t] }

\* the limits of claim and getByStatus that are compared
Limits == {1, BatchSize}

\* the two backends, given the same rows, the same state and the same
\* clock, answer every call alike
BackendsAgree(q, st, t) ==
  /\ \A e \in Events : SqliteEnqueue(q, e, t) = IdbEnqueue(q, e, t)
  /\ \A count \in Limits :
       /\ IdbSeeds(q, count) \in SqliteSeedChoices(q, count)
       /\ \A seeds \in SqliteSeedChoices(q, count) :
            /\ SqliteClaimItems(q, seeds, t) = IdbClaimItems(q, seeds, t)
            /\ SqliteMarkProcessing(q, DOMAIN SqliteClaimItems(q, seeds, t), t)
                 = IdbMarkProcessing(q, Stored(q, DOMAIN IdbClaimItems(q, seeds, t)), t)
  /\ \A ids \in SUBSET Ids : CompleteMany(q, ids, t) = IdbCompleteMany(q, ids, t)
  /\ \A id \in Ids : Fail(q, id, "error", t) = IdbFail(q, id, "error", t)
  /\ ResetProcessing(q, t) = IdbResetProcessing(q, t)
  /\ ResetProcessingCount(q) = IdbResetProcessingCount(q)
  /\ GetStats(q) = IdbGetStats(q)
  /\ \A txid \in Txids : SqliteGetByTxid(q, txid) = IdbGetByTxid(q, txid)
  /\ \A status \in Statuses, limit \in Limits :
       IdbGetByStatus(q, status, limit) \in SqliteGetByStatusChoices(q, status, limit)
  /\ \A state \in StatePatches(t) : SqliteSetState(st, state) = IdbSetState(st, state)
  /\ JsonParse(JsonStringify(st)) = st

\* C25: the SQLite and the IndexedDB backend implement one contract: after
\* every sequence of queue calls issued one at a time, on either backend,
\* the next call gives the same rows (status, attempts, lastError and the
\* other fields), the same claim groups for the same seeds, the same
\* getStats counts and the same sync state on both.
C25_BackendsAgree == BackendsAgree(queue, syncState, now + 1)

\* a claim on IndexedDB returned a group of two rows and left a pending row
\* of another transaction: the seeds were a choice, and the rows differ in
\* status and attempts
C25_Witness ==
  /\ backend = "idb"
  /\ lastOp.op = "claim"
  /\ Cardinality(DOMAIN lastOp.ret) = 2
  /\ Cardinality(SqliteSeedChoices(lastOp.pre, 1)) > 1
  /\ WithStatus(queue, "pending") # {}
  /\ \A id \in DOMAIN lastOp.ret : queue[id].attempts = 1

(***************************************************************************)
(* Bsv21Indexer.  A transaction is given by its token inputs (ctx.spends,  *)
(* each with the answer the overlay gives for it) and its token outputs.   *)
(* sym stands for the token metadata sym, icon and dec, which the code     *)
(* sets together.                                                          *)
(***************************************************************************)
MaxSpends == 2
MaxTxos == 2

TokenIds == {"T", "U"}
NoId == ""
Undefined == "undefined"
Amts == {1, 2}

\* getTokenByTxid: data of the transaction, HttpError 404, any other error
OverlayAnswers == {"ok", "404", "error"}
OverlaySym == "SYM"

\* spend.data.bsv21.data of an input, the overlay's answer, and whether
\* spend.owner is one of the owners
Spends == [id : TokenIds, amt : Amts, overlay : OverlayAnswers, owned : BOOLEAN]

\* what BSV21.decode finds in an output's locking script, and whether
\* txo.owner is one of the owners; a deploy+mint inscription has no id
RawTxos ==
  [id : TokenIds, op : {"transfer", "burn"}, amt : Amts, owned : BOOLEAN]
    \cup [id : {NoId}, op : {"deploy+mint"}, amt : Amts, owned : BOOLEAN]

SeqsUpTo(S, from, to) == UNION { [1 .. k -> S] : k \in from .. to }

\* outpoint.toString() of output vout of the parsed transaction
OutpointString(vout) == IF vout = 1 THEN "tx_0" ELSE "tx_1"

NoData == [op |-> "none"]

\* parse(txo): the Bsv21 data, the tags of an owned output and the basket.
\* The amounts of the model are below 2^64.
Bsv21Parse(raw, vout) ==
  LET bsv21 == [id |-> IF raw.id # NoId THEN raw.id ELSE OutpointString(vout),
                op |-> raw.op,
                amt |-> raw.amt,
                sym |-> IF raw.op = "deploy+mint" THEN OverlaySym ELSE Undefined,
                status |-> IF raw.op = "deploy+mint" THEN "valid" ELSE "pending"]
      tags == IF raw.owned
                THEN << <<"id", bsv21.id>>, <<"id", bsv21.id, bsv21.status>>,
                        <<"amt", bsv21.amt>> >>
                ELSE <<>>
  IN  IF bsv21.amt <= 0
        THEN [data |-> NoData, tags |-> <<>>, basket |-> "default", owned |-> raw.owned]
        ELSE [data |-> bsv21, tags |-> tags, basket |-> "bsv21", owned |-> raw.owned]

NoToken == [status |-> "absent"]
NewToken ==
  [sym |-> Undefined, status |-> Undefined, tokensIn |-> 0, tokensOut |-> 0]

NoRef == <<"none", 0>>

\* ["transfer", "burn"].includes(op)
Moves(data) == data.op \in {"transfer", "burn"}

\* the loop over ctx.spends; acc holds tokens, summaryToken (as a reference
\* to the input's or output's data), summaryBalance and whether the
\* overlay error was thrown on
RECURSIVE SummarizeSpends(_, _, _)
SummarizeSpends(inputs, i, acc) ==
  IF i > Len(inputs) \/ acc.threw
    THEN acc
    ELSE
      LET spend == inputs[i]
          token == IF acc.tokens[spend.id] = NoToken
                     THEN NewToken ELSE acc.tokens[spend.id]
          checked == IF spend.overlay = "ok"
                       THEN IF token.sym = Undefined
                              THEN [token EXCEPT !.sym = OverlaySym]
                              ELSE token
                       ELSE IF spend.overlay = "404"
                              THEN [token EXCEPT !.status = "pending"]
                              ELSE token
          summaryToken == IF acc.summaryToken = NoRef
                            THEN <<"spend", i>> ELSE acc.summaryToken
          mine == inputs[summaryToken[2]].id = spend.id /\ spend.owned
      IN  IF spend.overlay = "error"
            THEN [acc EXCEPT !.threw = TRUE, !.tokens[spend.id] = token]
            ELSE SummarizeSpends(inputs, i + 1,
                   [acc EXCEPT
                      !.tokens[spend.id] = [checked EXCEPT !.tokensIn = @ + spend.amt],
                      !.summaryToken = summaryToken,
                      !.summaryBalance = IF mine THEN @ - spend.amt ELSE @])

\* the id of the data summaryToken refers to
SummaryId(inputs, txos, ref) ==
  IF ref[1] = "spend" THEN inputs[ref[2]].id ELSE txos[ref[2]].data.id

\* the loop over ctx.txos that accumulates tokensOut
RECURSIVE SummarizeOutputs(_, _, _)
SummarizeOutputs(inputs, j, acc) ==
  IF j > Len(acc.txos)
    THEN acc
    ELSE
      LET txo == acc.txos[j]
          tokenData == txo.data
      IN  IF ~Moves(tokenData)
            THEN SummarizeOutputs(inputs, j + 1, acc)
            ELSE
              LET token == acc.tokens[tokenData.id]
                  summaryToken == IF acc.summaryToken = NoRef
                                    THEN <<"txo", j>> ELSE acc.summaryToken
                  mine == /\ SummaryId(inputs, acc.txos, summaryToken) = tokenData.id
                          /\ txo.owned
              IN  SummarizeOutputs(inputs, j + 1,
                    [acc EXCEPT
                       !.tokens[tokenData.id] =
                          IF token # NoToken
                            THEN [token EXCEPT !.tokensOut = @ + tokenData.amt]
                            ELSE NoToken,
                       !.txos[j].data =
                          IF token # NoToken
                            THEN [tokenData EXCEPT !.sym = token.sym]
                            ELSE [tokenData EXCEPT !.status = "invalid"],
                       !.summaryToken = summaryToken,
                       !.summaryBalance = IF mine THEN @ + tokenData.amt ELSE @])

\* finalize: a token whose status is still undefined
Finalize_Strict(token) ==
  IF token # NoToken /\ token.status = Undefined
    THEN [token EXCEPT !.status = IF token.tokensIn > token.tokensOut
                                    THEN "valid" ELSE "invalid"]
    ELSE token

Finalize(token) ==
  IF token # NoToken /\ token.status = Undefined
    THEN [token EXCEPT !.status = IF token.tokensIn >= token.tokensOut
                                    THEN "valid" ELSE "invalid"]
    ELSE token

\* apply: tokenData.status = token.status || "pending"
ApplyStatus(txo, tokens) ==
  IF Moves(txo.data) /\ tokens[txo.data.id] # NoToken
    THEN [txo EXCEPT !.data.status =
            IF tokens[txo.data.id].status # Undefined
              THEN tokens[txo.data.id].status ELSE "pending"]
    ELSE txo

NoSummary == [id |-> Undefined, amount |-> 0]

\* summarize(ctx): whether it threw, the txos as it leaves them and the
\* summary it returns.  The inputs are transfer outputs: their own data
\* carries no sym.
Bsv21Summarize(inputs, txos) ==
  LET start == [threw |-> FALSE, tokens |-> [id \in TokenIds |-> NoToken],
                txos |-> txos, summaryToken |-> NoRef, summaryBalance |-> 0]
      ins == SummarizeSpends(inputs, 1, start)
      outs == SummarizeOutputs(inputs, 1, ins)
      tokens == [id \in TokenIds |-> Finalize(outs.tokens[id])]
      applied == [j \in 1 .. Len(txos) |-> ApplyStatus(outs.txos[j], tokens)]
      sym == IF outs.summaryToken[1] = "txo"
               THEN applied[outs.summaryToken[2]].data.sym ELSE Undefined
  IN  IF ins.threw
        THEN [threw |-> TRUE, txos |-> txos, summary |-> NoSummary]
        ELSE [threw |-> FALSE, txos |-> applied,
              summary |-> IF sym # Undefined
                            THEN [id |-> sym, amount |-> outs.summaryBalance]
                            ELSE NoSummary]

BsvFrame == UNCHANGED <<backend, qvars, wvars, cvars, gvars, svars, evars, pvars>>

\* parseTransaction: parseInputs, the indexer's parse on every output, then
\* summarize, whose error is the error of the call
ParseTransaction ==
  /\ ctx.stage = "none"
  /\ \E inputs \in SeqsUpTo(Spends, 0, MaxSpends),
        raw \in SeqsUpTo(RawTxos, 1, MaxTxos) :
       LET txos == [j \in 1 .. Len(raw) |-> Bsv21Parse(raw[j], j)]
           r == Bsv21Summarize(inputs, txos)
       IN  ctx' = [stage |-> IF r.threw THEN "threw" ELSE "parsed",
                   spends |-> inputs, txos |-> r.txos, stored |-> <<>>]
  /\ BsvFrame

\* ingestTransaction, the output records of the owned outputs: the tags
\* are own:<owner> and the tags of every indexer's data
CollectTags(txo) == << <<"own", "addr">> >> \o txo.tags

IngestOwnedTxos ==
  /\ ctx.stage = "parsed"
  /\ ctx' = [ctx EXCEPT
               !.stage = "stored",
               !.stored = [j \in 1 .. Len(ctx.txos) |->
                             IF ctx.txos[j].owned
                               THEN [basket |-> ctx.txos[j].basket,
                                     tags |-> CollectTags(ctx.txos[j])]
                               ELSE [basket |-> "none", tags |-> <<>>]]]
  /\ BsvFrame

NextBsv21 ==
  \/ ParseTransaction
  \/ IngestOwnedTxos

SpecBsv21 == Init /\ [][NextBsv21]_vars

(***************************************************************************)
(* Properties of the BSV21 indexer.                                        *)
(***************************************************************************)
RECURSIVE SumAmts(_, _)
SumAmts(amts, ks) ==
  IF ks = {} THEN 0
  ELSE LET k == CHOOSE x \in ks : TRUE IN amts[k] + SumAmts(amts, ks \ {k})

\* the inputs and the transfer/burn outputs of a token id
SpendsOf(id) == { i \in 1 .. Len(ctx.spends) : ctx.spends[i].id = id }
MovesOf(id) ==
  { j \in 1 .. Len(ctx.txos) : Moves(ctx.txos[j].data) /\ ctx.txos[j].data.id = id }

TokensIn(id) == SumAmts([i \in 1 .. Len(ctx.spends) |-> ctx.spends[i].amt], SpendsOf(id))
TokensOut(id) == SumAmts([j \in 1 .. Len(ctx.txos) |-> ctx.txos[j].data.amt], MovesOf(id))

Summarized == ctx.stage \in {"parsed", "stored"}

\* C26: after summarize has returned, for every token id that an input
\* carries, each transfer or burn output of the id is pending if the
\* overlay answered 404 for an input of the id (which raises no error),
\* and otherwise valid if tokensIn >= tokensOut and invalid if not.
C26_StatusAfterSummarize ==
  /\ ctx.stage = "threw" => \E i \in 1 .. Len(ctx.spends) : ctx.spends[i].overlay = "error"
  /\ Summarized =>
       \A id \in TokenIds : SpendsOf(id) # {} =>
         \A j \in MovesOf(id) :
           ctx.txos[j].data.status =
             IF \E i \in SpendsOf(id) : ctx.spends[i].overlay = "404"
               THEN "pending"
               ELSE IF TokensIn(id) >= TokensOut(id) THEN "valid" ELSE "invalid"

\* the input of token T is unknown to the overlay and T's output is
\* pending; token U moves exactly what came in and its output is valid
C26_Witness ==
  /\ Summarized
  /\ Cardinality(SpendsOf("T")) = 1 /\ Cardinality(SpendsOf("U")) = 1
  /\ \E i \in SpendsOf("T") : ctx.spends[i].overlay = "404"
  /\ \E j \in MovesOf("T") : ctx.txos[j].data.status = "pending"
  /\ \E j \in MovesOf("U") :
       /\ ctx.txos[j].data.status = "valid"
       /\ TokensIn("U") = TokensOut("U")

\* the tags of a stored output that the indexers gave
IndexerTags(tags) ==
  { tags[k] : k \in { n \in 1 .. Len(tags) : tags[n][1] # "own" } }

\* C27: the tags stored with an owned BSV21 output are id:<tokenId>,
\* id:<tokenId>:<status> and amt:<n>, and <status> is the status that
\* data.bsv21 of the output has after parse and summarize.
C27_TagStatusIsTokenStatus ==
  ctx.stage = "stored" =>
    \A j \in 1 .. Len(ctx.txos) :
      (ctx.txos[j].owned /\ ctx.txos[j].data # NoData) =>
        LET data == ctx.txos[j].data
            tags == ctx.stored[j].tags
        IN  IndexerTags(tags) = { <<"id", data.id>>,
                                  <<"id", data.id, data.status>>,
                                  <<"amt", data.amt>> }

(***************************************************************************)
(* Properties of the failure handling of the queue processing.             *)
(***************************************************************************)
\* C28: an item whose processing fails is retried (with exponential
\* backoff) and marked failed only after its retries are exhausted: a row
\* that is failed has been claimed for processing more than once.
C28_FailedAfterRetries ==
  \A id \in Ids : queue[id].status = "failed" => queue[id].attempts > 1

(***************************************************************************)
(* Properties of the entry points' use of the queue.                       *)
(***************************************************************************)
\* C29: work never resumes on rows a crashed session left processing:
\* every enqueue and every claim of a session (since the wallet was
\* constructed, or since it was constructed again after a crash) comes
\* after a resetProcessing of that session, whichever of the entry points
\* started the work.
C29_ResetBeforeWork ==
  lastOp.op \in {"enqueue", "claim"} => recovered

\* C30: the wallet serializes its claims: no two claim calls are
\* outstanding on the queue at once, and no claim is issued while groups
\* of an earlier claim are still being processed, whatever the host calls.
C30_ClaimsSerialized ==
  /\ ~(InClaim /\ ppc = "claim")
  /\ InClaim => DOMAIN pbatch = {}
  /\ ppc = "claim" => DOMAIN batch = {}

(***************************************************************************)
(* Properties of the spend-only groups.                                    *)
(***************************************************************************)
\* the row a spend-only group over spendMap leaves in place of row
SpendOnlyEffect(row, p) ==
  IF row.txid = p.txid /\ row.vout \in p.spendMap /\ row.spendable
    THEN [row EXCEPT !.spendable = FALSE]
    ELSE row

\* C31: processing a group whose items all carry a spendTxid loads and
\* ingests nothing and creates no transaction or output row: the step in
\* which its storage work ends leaves the transaction rows alone and
\* changes the output rows only by setting spendable = false on the
\* stored outputs (txid, vout) of the group that were still spendable;
\* processTxid then goes on to completeMany, stored output or not.
C31_SpendOnlyFrame ==
  [][(lastProcess'.path = "markOutputsSpent" /\ lastProcess'.next = "completeMany")
       => /\ transactions' = transactions
          /\ ingested' = ingested
          /\ Len(outputs') = Len(outputs)
          /\ \A i \in 1 .. Len(outputs) :
               outputs'[i] = SpendOnlyEffect(outputs[i], lastProcess')]_vars

\* a spend-only group ended with completeMany while no output of its
\* transaction is stored; an output of another transaction is stored and
\* marked spent
C31_Witness ==
  /\ lastProcess.path = "markOutputsSpent"
  /\ lastProcess.next = "completeMany"
  /\ \A vout \in lastProcess.spendMap : FindOutputs(outputs, lastProcess.txid, vout) = {}
  /\ \E i \in 1 .. Len(outputs) : ~outputs[i].spendable /\ outputs[i].spentBy = NoSpentBy

(***************************************************************************)
(* Properties of events that arrive while their group is processed.        *)
(***************************************************************************)
\* C32: an event enqueued while the group of its txid is being processed is
\* not marked done by the completion of that group: a row that is pending
\* stays pending until a claim returns it (and makes it processing); no
\* completeMany or fail of an earlier claim takes it out of pending.
C32_PendingUntilClaimed ==
  [][\A id \in Ids :
       queue[id].status = "pending" => queue'[id].status \in {"pending", "processing"}]_vars

\* sync() has settled: it returned or it rejected
SyncSettled == pc \in {"idle", "rejected"}

\* C33: the subscription sync() opened is released on every exit path: once
\* sync() has settled (stream finished, stopSync at any moment, an error)
\* no subscription of sync() is open any more, so no further stream event
\* can be enqueued or advance lastQueuedScore.
C33_SubscriptionReleased == SyncSettled => streams = {}

\* C34: when the claim of the startProcessor() loop returns nothing and the
\* stream startStream() opened is done, the loop emits sync:complete and
\* exits: the processor is no longer active, without stopProcessor().
C34_ProcessorExits ==
  [][(ppc = "claim" /\ lastOp'.op = "claim" /\ DOMAIN lastOp'.ret = {} /\ thisStreamDone)
       => (lastEmit' = "complete" /\ ~processorActive')]_vars

\* the enqueue calls of handleSyncOutput that have not committed yet
EnqueuesInFlight == { i \in 1 .. Len(txq) : txq[i].kind = "enqueue" }

\* C35: when sync:complete is emitted every event the stream delivered has
\* been enqueued and processed: no enqueue is still in flight and every
\* queue row is done or failed, none is pending or processing.
C35_AllProcessedAtComplete ==
  lastEmit = "complete" =>
    /\ EnqueuesInFlight = {}
    /\ \A id \in Ids : queue[id].status \in {"absent", "done", "failed"}

(***************************************************************************)
(* Properties of the commit order of ingests.                              *)
(***************************************************************************)
\* What the storage holds, without the row ids: the transaction rows, and the
\* output rows with spentBy as the txid of the transaction row it refers to
StorageRows(T, O) ==
  [transactions |->
     { [txid |-> T[i].txid, description |-> T[i].description,
        isOutgoing |-> T[i].isOutgoing, satoshis |-> T[i].satoshis] :
       i \in 1 .. Len(T) },
   outputs |->
     { [txid |-> O[i].txid, vout |-> O[i].vout, spendable |-> O[i].spendable,
        spentBy |-> IF O[i].spentBy = NoSpentBy THEN "-" ELSE T[O[i].spentBy].txid] :
       i \in 1 .. Len(O) }]

\* ingestTransaction(A) commits on the empty storage, then ingestTransaction(B)
AThenB(deep) ==
  LET a == Ingest(<<>>, <<>>, "A", "1sat-sync", {}, deep)
  IN  Ingest(a.transactions, a.outputs, "B", "1sat-sync", {}, deep)

\* C36: the storage after a batch does not depend on the order in which the
\* ingests commit: when A and B, which spends an output of A, have each been
\* ingested once, the transaction rows and the output rows with their
\* spendable and spentBy values are those of ingesting A before B.
C36_CommitOrderIndependent ==
  (ingestCalls = 2 /\ ingests = {} /\ ingested = {"A", "B"}) =>
    \E deep \in BOOLEAN :
      StorageRows(transactions, outputs)
        = StorageRows(AThenB(deep).transactions, AThenB(deep).outputs)

(***************************************************************************)
(* The queue and the wallet storage together: the stream delivers and      *)
(* delivers again, claim hands out groups and processTxid works on the     *)
(* storage and settles its items.  The steps run one after the other, as   *)
(* the SQLite backend runs them.                                           *)
(***************************************************************************)
MaxEnqueues == 4

DrainFrame ==
  UNCHANGED <<backend, syncState, txq, setq, wvars, claimTodo, claimItems, claimNow,
              gvars, ingests, ingestCalls, lastIngest, spends, lastProcess, evars,
              ivars, pvars>>

\* The stream sends its events in score order, on every subscription anew
InScoreOrder(q, e) == \A id \in Ids : id[2] < e.score => q[id] # NoRow

\* handleSyncOutput: the enqueue of a delivered event commits
DrainDeliver ==
  /\ now < MaxEnqueues
  /\ \E e \in Events :
       /\ InScoreOrder(queue, e)
       /\ queue' = Enqueue(queue, e, now + 1)
  /\ now' = now + 1
  /\ UNCHANGED <<batch, transactions, outputs, ingested>>
  /\ DrainFrame

\* claim(BATCH_SIZE) of the loop returns groups: Promise.all over them
DrainClaim ==
  /\ DOMAIN batch = {}
  /\ \E items \in ClaimResults(queue, BatchSize, now) :
       /\ DOMAIN items # {}
       /\ queue' = ClaimMarks(queue, DOMAIN items, now)
       /\ batch' = NewBatch(items)
  /\ UNCHANGED <<now, transactions, outputs, ingested>>
  /\ DrainFrame

\* for (const item of items) if (item.spendTxid) spendMap.set(vout, ...)
SpendMapOf(items) ==
  { VoutOf(items[id].outpoint) : id \in { j \in DOMAIN items : items[j].spendTxid # NoSpend } }

\* items.some((item) => !item.spendTxid)
HasUnspentCreation(items) == \E id \in DOMAIN items : items[id].spendTxid = NoSpend

\* for (const item of items) await this.syncQueue.fail(item.id, String(error))
RECURSIVE FailItems(_, _, _)
FailItems(q, ids, t) ==
  IF ids = {}
    THEN q
    ELSE FailItems(Fail(q, FirstId(ids), "error", t), ids \ {FirstId(ids)}, t)

\* processTxid(txid, items) from its first line to its last: the storage
\* work and completeMany, or the catch block.  The ingest may have
\* committed when the second storage transaction of ingestWithSpendInfo
\* throws.
DrainProcessTxid ==
  /\ \E txid \in DOMAIN batch, outcome \in {"ok", "throws", "markThrows"} :
       LET items == batch[txid].items
           spendMap == SpendMapOf(items)
           r == Ingest(transactions, outputs, txid, "1sat-sync", {}, FALSE)
       IN  /\ outcome = "markThrows" => HasUnspentCreation(items) /\ spendMap # {}
           /\ IF outcome = "throws"
                THEN UNCHANGED <<transactions, outputs, ingested>>
                ELSE IF HasUnspentCreation(items)
                  THEN /\ transactions' = r.transactions
                       /\ outputs' = IF outcome = "ok"
                                       THEN MarkKnownSpent(r.outputs, txid, spendMap)
                                       ELSE r.outputs
                       /\ ingested' = ingested \cup {txid}
                  ELSE /\ outputs' = MarkOutputsSpent(outputs, txid, spendMap)
                       /\ UNCHANGED <<transactions, ingested>>
           /\ queue' = IF outcome = "ok"
                         THEN CompleteMany(queue, DOMAIN items, now)
                         ELSE FailItems(queue, DOMAIN items, now)
           /\ batch' = Without(batch, txid)
  /\ UNCHANGED now
  /\ DrainFrame

NextDrain ==
  \/ DrainDeliver
  \/ DrainClaim
  \/ DrainProcessTxid

SpecDrain == Init /\ [][NextDrain]_vars

\* every stored queue row is done and no group is being processed
AllDone ==
  /\ DOMAIN batch = {}
  /\ \A id \in Ids : queue[id].status \in {"absent", "done"}

\* C37: once every queue item is done, for every done item that carries a
\* spendTxid the stored output (txid, vout), if there is one, has
\* spendable = false, whatever the deliveries, failures and re-deliveries
\* were.
C37_DoneSpendsMarked ==
  AllDone =>
    \A id \in Ids :
      (queue[id].status = "done" /\ queue[id].spendTxid # NoSpend) =>
        \A i \in FindOutputs(outputs, TxidOf(id[1]), VoutOf(id[1])) :
          ~outputs[i].spendable

\* C38: whenever sync() has settled, returned or rejected, isSyncing() is
\* false, so that a later sync() call starts a new sync.
C38_SettledNotSyncing == SyncSettled => ~syncRunning

\* C39: done is absorbing: a row that is done keeps status done in every
\* step but a clear, whatever queue operation (fail, claim, enqueue,
\* resetProcessing) or step of the orchestrator is taken.
C39_DoneAbsorbing ==
  [][\A id \in Ids :
       queue[id].status = "done" =>
         (queue'[id].status = "done" \/ lastOp'.op = "clear")]_vars

\* setState({lastQueuedScore, ...}) of handleSyncOutput commits in this step
ScorePersisted == setq # <<>> /\ setq' = Tail(setq) /\ crashes' = crashes

\* the delivered events whose enqueue has not committed and whose id has no
\* queue row
DeliveredUnqueued ==
  { txq[i].arg.ev : i \in { j \in EnqueuesInFlight :
      queue[IdOf(txq[j].arg.ev.outpoint, txq[j].arg.ev.score)] = NoRow } }

\* C40: whenever lastQueuedScore = s is persisted, every event delivered so
\* far with score <= s already has a queue row: no delivered event of such
\* a score is still waiting for its enqueue.
C40_PersistedScoreQueued ==
  [][ScorePersisted =>
       \A e \in DeliveredUnqueued' : e.score > syncState'.lastQueuedScore]_vars

=============================================================================
